---- MODULE Spec2Model ----
(***************************************************************************)
(* A model of the dualsense-go library: the output-report codec            *)
(* (outputReport.go), the input-report codec (inputReport.go) and the      *)
(* device object with its poller, observer dispatch, mutators, Start and   *)
(* Close (dualsense.go).                                                   *)
(***************************************************************************)
EXTENDS Integers, Sequences, FiniteSets, TLC

\* ------------------------------------------------------------------------
\* Program constants
\* ------------------------------------------------------------------------
USB_PACKET_SIZE == 64
DEFAULT_POLLING_RATE == 50
REPORT_ID_OUT == 2

\* ------------------------------------------------------------------------
\* Bounds of the model
\* ------------------------------------------------------------------------
MaxCalls == 2
MaxStarts == 2
MaxOps == 4

\* The application tasks (goroutines calling the API).
Tasks == { 1, 2 }
NoTask == 0

\* ------------------------------------------------------------------------
\* uint8 arithmetic
\* ------------------------------------------------------------------------
Pow2(n) == 2^n
U8(x) == x % 256
Shl8(x, n) == (x * Pow2(n)) % 256
Shr8(x, n) == x \div Pow2(n)
Bit(x, k) == (x \div Pow2(k)) % 2
OrBit(a, b) == IF a = 1 \/ b = 1 THEN 1 ELSE 0
Or8(a, b) ==
    OrBit(Bit(a, 0), Bit(b, 0)) + 2 * OrBit(Bit(a, 1), Bit(b, 1))
    + 4 * OrBit(Bit(a, 2), Bit(b, 2)) + 8 * OrBit(Bit(a, 3), Bit(b, 3))
    + 16 * OrBit(Bit(a, 4), Bit(b, 4)) + 32 * OrBit(Bit(a, 5), Bit(b, 5))
    + 64 * OrBit(Bit(a, 6), Bit(b, 6)) + 128 * OrBit(Bit(a, 7), Bit(b, 7))
OrIf(x, cond, mask) == IF cond THEN Or8(x, mask) ELSE x
LE32(x) == << x % 256, (x \div 256) % 256, (x \div 65536) % 256, (x \div 16777216) % 256 >>

\* ------------------------------------------------------------------------
\* outputReport.go: SetStateData and its packing
\* ------------------------------------------------------------------------
EffectTypeOff == 5
MicSelectAuto == 0
MuteLightModeOff == 0
LightFadeAnimationFadeOut == 2
LightBrightnessBright == 0

GenerateTriggerFFBParams(effectType, startPos, endPos, strength) ==
    << effectType, startPos, endPos, strength, 0, 0, 0, 0, 0, 0, 0 >>

ZeroFFB == << 0, 0, 0, 0, 0, 0, 0, 0, 0, 0, 0 >>

\* The zero value of the Go struct SetStateData.
ZeroSetStateData ==
    [ EnableRumbleEmulation |-> FALSE, UseRumbleNotHaptics |-> FALSE,
      AllowRightTriggerFFB |-> FALSE, AllowLeftTriggerFFB |-> FALSE,
      AllowHeadphoneVolume |-> FALSE, AllowSpeakerVolume |-> FALSE,
      AllowMicVolume |-> FALSE, AllowAudioControl |-> FALSE,
      AllowMuteLight |-> FALSE, AllowAudioMute |-> FALSE,
      AllowLedColor |-> FALSE, ResetLights |-> FALSE,
      AllowPlayerIndicators |-> FALSE, AllowHapticLowPassFilter |-> FALSE,
      AllowMotorPowerLevel |-> FALSE, AllowAudioControl2 |-> FALSE,
      RumbleEmulationRight |-> 0, RumbleEmulationLeft |-> 0,
      VolumeHeadphones |-> 0, VolumeSpeaker |-> 0, VolumeMic |-> 0,
      MicSelect |-> 0, EchoCancelEnable |-> FALSE, NoiseCancelEnable |-> FALSE,
      OutputPathSelect |-> 0, InputPathSelect |-> 0, MuteLight |-> 0,
      TouchPowerSave |-> FALSE, MotionPowerSave |-> FALSE,
      HapticPowerSave |-> FALSE, AudioPowerSave |-> FALSE,
      MicMute |-> FALSE, SpeakerMute |-> FALSE, HeadphoneMute |-> FALSE,
      HapticMute |-> FALSE,
      RightTriggerFFB |-> ZeroFFB, LeftTriggerFFB |-> ZeroFFB,
      HostTimestamp |-> 0,
      TriggerMotorPowerReduction |-> 0, RumbleMotorPowerReduction |-> 0,
      SpeakerCompPreGain |-> 0, BeamformingEnable |-> FALSE,
      AllowLightBrightnessChange |-> FALSE,
      AllowColorLightFadeAnimation |-> FALSE,
      EnableImprovedRumbleEmulation |-> FALSE,
      HapticLowPassFilter |-> FALSE,
      LightFadeAnimation |-> 0, LightBrightness |-> 0,
      PlayerLight1 |-> FALSE, PlayerLight2 |-> FALSE, PlayerLight3 |-> FALSE,
      PlayerLight4 |-> FALSE, PlayerLight5 |-> FALSE,
      PlayerLightFade |-> FALSE,
      LedRed |-> 0, LedGreen |-> 0, LedBlue |-> 0 ]

defaultSetStateData ==
    [ EnableRumbleEmulation |-> TRUE, UseRumbleNotHaptics |-> TRUE,
      AllowRightTriggerFFB |-> TRUE, AllowLeftTriggerFFB |-> TRUE,
      AllowHeadphoneVolume |-> TRUE, AllowSpeakerVolume |-> TRUE,
      AllowMicVolume |-> TRUE, AllowAudioControl |-> TRUE,
      AllowMuteLight |-> TRUE, AllowAudioMute |-> TRUE,
      AllowLedColor |-> TRUE, ResetLights |-> FALSE,
      AllowPlayerIndicators |-> TRUE, AllowHapticLowPassFilter |-> TRUE,
      AllowMotorPowerLevel |-> TRUE, AllowAudioControl2 |-> TRUE,
      RumbleEmulationRight |-> 0, RumbleEmulationLeft |-> 0,
      VolumeHeadphones |-> 0, VolumeSpeaker |-> 0, VolumeMic |-> 0,
      MicSelect |-> MicSelectAuto,
      EchoCancelEnable |-> FALSE, NoiseCancelEnable |-> FALSE,
      OutputPathSelect |-> 0, InputPathSelect |-> 0,
      MuteLight |-> MuteLightModeOff,
      TouchPowerSave |-> FALSE, MotionPowerSave |-> FALSE,
      HapticPowerSave |-> FALSE, AudioPowerSave |-> FALSE,
      MicMute |-> FALSE, SpeakerMute |-> FALSE, HeadphoneMute |-> FALSE,
      HapticMute |-> FALSE,
      RightTriggerFFB |-> GenerateTriggerFFBParams(EffectTypeOff, 0, 0, 0),
      LeftTriggerFFB |-> GenerateTriggerFFBParams(EffectTypeOff, 0, 0, 0),
      HostTimestamp |-> 0,
      TriggerMotorPowerReduction |-> 0, RumbleMotorPowerReduction |-> 0,
      SpeakerCompPreGain |-> 0, BeamformingEnable |-> FALSE,
      AllowLightBrightnessChange |-> FALSE,
      AllowColorLightFadeAnimation |-> FALSE,
      EnableImprovedRumbleEmulation |-> FALSE,
      HapticLowPassFilter |-> TRUE,
      LightFadeAnimation |-> LightFadeAnimationFadeOut,
      LightBrightness |-> LightBrightnessBright,
      PlayerLight1 |-> FALSE, PlayerLight2 |-> FALSE, PlayerLight3 |-> FALSE,
      PlayerLight4 |-> FALSE, PlayerLight5 |-> FALSE,
      PlayerLightFade |-> FALSE,
      LedRed |-> 255, LedGreen |-> 255, LedBlue |-> 255 ]

\* for _, v := range b { packed >>= 1; if v { packed |= 0b10000000 } }
RECURSIVE PackLoop(_, _, _)
PackLoop(b, i, packed) ==
    IF i > Len(b) THEN packed
    ELSE PackLoop(b, i + 1, OrIf(Shr8(packed, 1), b[i], 128))

\* A packing that puts the first boolean in the most significant bit.
RECURSIVE PackLoopBig(_, _, _)
PackLoopBig(b, i, packed) ==
    IF i > Len(b) THEN packed
    ELSE PackLoopBig(b, i + 1, OrIf(Shl8(packed, 1), b[i], 1))

packBoolsToBigEndianUint8(b) == PackLoopBig(b, 1, 0)

packBoolsToLittleEndianUint8(b) == PackLoop(b, 1, 0)

packSetFlags0(s) ==
    packBoolsToLittleEndianUint8(<< s.EnableRumbleEmulation,
        s.UseRumbleNotHaptics, s.AllowRightTriggerFFB, s.AllowLeftTriggerFFB,
        s.AllowHeadphoneVolume, s.AllowSpeakerVolume, s.AllowMicVolume,
        s.AllowAudioControl >>)

\* A setFlags1 whose list has ResetLights and AllowPlayerIndicators swapped.
packSetFlags1Swapped(s) ==
    packBoolsToLittleEndianUint8(<< s.AllowMuteLight, s.AllowAudioMute,
        s.AllowLedColor, s.AllowPlayerIndicators, s.ResetLights,
        s.AllowHapticLowPassFilter, s.AllowMotorPowerLevel,
        s.AllowAudioControl2 >>)

packSetFlags1(s) ==
    packBoolsToLittleEndianUint8(<< s.AllowMuteLight, s.AllowAudioMute,
        s.AllowLedColor, s.ResetLights, s.AllowPlayerIndicators,
        s.AllowHapticLowPassFilter, s.AllowMotorPowerLevel,
        s.AllowAudioControl2 >>)

\* An audioControl assembled by shifting each field to its place, with no
\* field cut to its width.
packAudioControlUnmasked(s) ==
    Or8(Or8(OrIf(OrIf(U8(s.MicSelect), s.EchoCancelEnable, 4),
                 s.NoiseCancelEnable, 8),
            Shl8(s.OutputPathSelect, 4)),
        Shl8(s.InputPathSelect, 6))

packAudioControl(s) ==
    LET a1 == Shr8(Shl8(s.MicSelect, 6), 1)
        a2 == Shr8(OrIf(a1, s.EchoCancelEnable, 128), 1)
        a3 == Shr8(OrIf(a2, s.NoiseCancelEnable, 128), 2)
        a4 == Shr8(Or8(a3, Shl8(s.OutputPathSelect, 6)), 2)
    IN  Or8(a4, Shl8(s.InputPathSelect, 6))

packMuteControl(s) ==
    packBoolsToLittleEndianUint8(<< s.TouchPowerSave, s.MotionPowerSave,
        s.HapticPowerSave, s.AudioPowerSave, s.MicMute, s.SpeakerMute,
        s.HeadphoneMute, s.HapticMute >>)

packMotorPowerLevel(s) ==
    Or8(s.TriggerMotorPowerReduction, Shl8(s.RumbleMotorPowerReduction, 4))

\* An audioControl2 that sets the beamforming bit before the first shift.
packAudioControl2EarlyOr(s) ==
    LET a1 == OrIf(Shl8(s.SpeakerCompPreGain, 5), s.BeamformingEnable, 128)
    IN  Shr8(Shr8(a1, 1), 4)

packAudioControl2(s) ==
    LET a1 == Shr8(Shl8(s.SpeakerCompPreGain, 5), 1)
    IN  Shr8(OrIf(a1, s.BeamformingEnable, 128), 4)

packSetFlags38(s) ==
    LET f1 == Shr8(OrIf(0, s.AllowLightBrightnessChange, 128), 1)
        f2 == Shr8(OrIf(f1, s.AllowColorLightFadeAnimation, 128), 1)
    IN  Shr8(OrIf(f2, s.EnableImprovedRumbleEmulation, 128), 5)

packSetFlags39(s) == Shr8(OrIf(0, s.HapticLowPassFilter, 128), 7)

packPlayerIndicators(s) ==
    packBoolsToLittleEndianUint8(<< s.PlayerLight1, s.PlayerLight2,
        s.PlayerLight3, s.PlayerLight4, s.PlayerLight5, s.PlayerLightFade,
        FALSE, FALSE >>)

\* binary.Write of packedUSBReportOut, little endian, no padding: 48 bytes.
packUSBReportOut(s) ==
    << REPORT_ID_OUT, packSetFlags0(s), packSetFlags1(s),
       s.RumbleEmulationRight, s.RumbleEmulationLeft,
       s.VolumeHeadphones, s.VolumeSpeaker, s.VolumeMic,
       packAudioControl(s), s.MuteLight, packMuteControl(s) >>
    \o s.RightTriggerFFB \o s.LeftTriggerFFB \o LE32(s.HostTimestamp)
    \o << packMotorPowerLevel(s), packAudioControl2(s), packSetFlags38(s),
          packSetFlags39(s), 0, s.LightFadeAnimation, s.LightBrightness,
          packPlayerIndicators(s), s.LedRed, s.LedGreen, s.LedBlue >>

\* ------------------------------------------------------------------------
\* inputReport.go: USBGetStateData and its unpacking
\* ------------------------------------------------------------------------
\* data is the 64-byte buffer; Go's data[k] is At(data, k).
At(data, k) == data[k + 1]

\* A bit extraction whose mask is two bits wide; the callers compare with 1.
getNthLittleEndianBitUint8Wide(b, n) == (b \div Pow2(n)) % 4

getNthLittleEndianBitUint8(b, n) == (b \div Pow2(n)) % 2

\* A little-endian int16 / int8 as the signed value binary.Read produces.
I16(lo, hi) ==
    LET u == lo + 256 * hi IN IF u >= 32768 THEN u - 65536 ELSE u
I8(b) == IF b >= 128 THEN b - 256 ELSE b
\* A uint32 / uint64 field is kept as its little-endian bytes: the values
\* exceed the integers TLC computes with, and equality is all the code uses.
Bytes(data, from, n) == [ i \in 1..n |-> At(data, from + i - 1) ]

\* TouchFinger from the 4 little-endian bytes of its packed uint32 at offset o.
unpackTouchFinger(data, o) ==
    [ Index |-> At(data, o) % 128,
      NotTouching |-> getNthLittleEndianBitUint8(At(data, o), 7) = 1,
      FingerX |-> At(data, o + 1) + 256 * (At(data, o + 2) % 16),
      FingerY |-> (At(data, o + 2) \div 16) + 16 * At(data, o + 3) ]

ZeroTouchFinger ==
    [ Index |-> 0, NotTouching |-> FALSE, FingerX |-> 0, FingerY |-> 0 ]

DirectionNorth == 0
DirectionNone == 8
PowerStateDischarging == 0

decodeUSBGetStateData(data) ==
    [ LeftStickX |-> At(data, 1), LeftStickY |-> At(data, 2),
      RightStickX |-> At(data, 3), RightStickY |-> At(data, 4),
      TriggerLeft |-> At(data, 5), TriggerRight |-> At(data, 6),
      SeqNo |-> At(data, 7),
      DPad |-> At(data, 8) % 16,
      ButtonSquare |-> getNthLittleEndianBitUint8(At(data, 8), 4) = 1,
      ButtonCross |-> getNthLittleEndianBitUint8(At(data, 8), 5) = 1,
      ButtonCircle |-> getNthLittleEndianBitUint8(At(data, 8), 6) = 1,
      ButtonTriangle |-> getNthLittleEndianBitUint8(At(data, 8), 7) = 1,
      ButtonL1 |-> getNthLittleEndianBitUint8(At(data, 9), 0) = 1,
      ButtonR1 |-> getNthLittleEndianBitUint8(At(data, 9), 1) = 1,
      ButtonL2 |-> getNthLittleEndianBitUint8(At(data, 9), 2) = 1,
      ButtonR2 |-> getNthLittleEndianBitUint8(At(data, 9), 3) = 1,
      ButtonCreate |-> getNthLittleEndianBitUint8(At(data, 9), 4) = 1,
      ButtonOptions |-> getNthLittleEndianBitUint8(At(data, 9), 5) = 1,
      ButtonL3 |-> getNthLittleEndianBitUint8(At(data, 9), 6) = 1,
      ButtonR3 |-> getNthLittleEndianBitUint8(At(data, 9), 7) = 1,
      ButtonHome |-> getNthLittleEndianBitUint8(At(data, 10), 0) = 1,
      ButtonPad |-> getNthLittleEndianBitUint8(At(data, 10), 1) = 1,
      ButtonMute |-> getNthLittleEndianBitUint8(At(data, 10), 2) = 1,
      ButtonLeftFunction |-> getNthLittleEndianBitUint8(At(data, 10), 4) = 1,
      ButtonRightFunction |-> getNthLittleEndianBitUint8(At(data, 10), 5) = 1,
      ButtonLeftPaddle |-> getNthLittleEndianBitUint8(At(data, 10), 6) = 1,
      ButtonRightPaddle |-> getNthLittleEndianBitUint8(At(data, 10), 7) = 1,
      AngularVelocityX |-> I16(At(data, 16), At(data, 17)),
      AngularVelocityZ |-> I16(At(data, 18), At(data, 19)),
      AngularVelocityY |-> I16(At(data, 20), At(data, 21)),
      AccelerometerX |-> I16(At(data, 22), At(data, 23)),
      AccelerometerY |-> I16(At(data, 24), At(data, 25)),
      AccelerometerZ |-> I16(At(data, 26), At(data, 27)),
      SensorTimestamp |-> Bytes(data, 28, 4),
      Temperature |-> I8(At(data, 32)),
      TouchData |-> [ TouchFinger1 |-> unpackTouchFinger(data, 33),
                      TouchFinger2 |-> unpackTouchFinger(data, 37),
                      Timestamp |-> At(data, 41) ],
      TriggerRightStopLocation |-> At(data, 42) % 16,
      TriggerRightStatus |-> Shr8(At(data, 42), 4),
      TriggerLeftStopLocation |-> At(data, 43) % 16,
      TriggerLeftStatus |-> Shr8(At(data, 43), 4),
      HostTimestamp |-> Bytes(data, 44, 4),
      TriggerRightEffect |-> At(data, 48) % 16,
      TriggerLeftEffect |-> Shr8(At(data, 48), 4),
      DeviceTimestamp |-> Bytes(data, 49, 4),
      PowerPercent |-> At(data, 53) % 16,
      PowerState |-> Shr8(At(data, 53), 4),
      PluggedHeadphones |-> getNthLittleEndianBitUint8(At(data, 54), 0) = 1,
      PluggedMic |-> getNthLittleEndianBitUint8(At(data, 54), 1) = 1,
      MicMuted |-> getNthLittleEndianBitUint8(At(data, 54), 2) = 1,
      PluggedUsbData |-> getNthLittleEndianBitUint8(At(data, 54), 3) = 1,
      PluggedUsbPower |-> getNthLittleEndianBitUint8(At(data, 54), 4) = 1,
      PluggedExternalMic |-> getNthLittleEndianBitUint8(At(data, 55), 0) = 1,
      HapticLowPassFilter |-> getNthLittleEndianBitUint8(At(data, 55), 1) = 1,
      AesCmac |-> Bytes(data, 56, 8) ]

ZeroBuffer == [ i \in 1..USB_PACKET_SIZE |-> 0 ]

\* The zero value of the Go struct USBGetStateData.
ZeroGetStateData == decodeUSBGetStateData(ZeroBuffer)

\* An unpackUSBReportIn that rejects only a buffer that is too short.
unpackUSBReportInAtLeast(data) ==
    IF Len(data) < USB_PACKET_SIZE
    THEN [ err |-> TRUE, ReportID |-> 0, USBGetStateData |-> ZeroGetStateData ]
    ELSE [ err |-> FALSE, ReportID |-> At(data, 0),
           USBGetStateData |-> decodeUSBGetStateData(data) ]

\* unpackUSBReportIn: an error for a wrong length, else the decoded report.
unpackUSBReportIn(data) ==
    IF Len(data) # USB_PACKET_SIZE
    THEN [ err |-> TRUE, ReportID |-> 0, USBGetStateData |-> ZeroGetStateData ]
    ELSE [ err |-> FALSE, ReportID |-> At(data, 0),
           USBGetStateData |-> decodeUSBGetStateData(data) ]

\* ------------------------------------------------------------------------
\* dualsense.go: the DualSense object
\* ------------------------------------------------------------------------
VARIABLES
    setStateData,     \* d.setStateData: the cached SetStateData
    setStateDataMu,   \* d.setStateDataMu: the task holding it, or NoTask
    getStateData,     \* d.getStateData: the stored snapshot
    callbacks,        \* d.callbacks: per field, the registered callbacks
    deviceOpen,       \* FALSE once device.Close() has run
    wire,             \* the bytes of the latest device.Write
    devState,         \* << the SetStateData of the latest successful Write >>
    task,             \* the application tasks; pc "send" is blocked on usbReportInClose
    pollers,          \* the listenReportIn goroutines, in launch order
    used,             \* how much of each bound is used up
    pollingRate,      \* d.pollingRate, in milliseconds
    call              \* a codec function called on its own: argument and result

vars == << setStateData, setStateDataMu, getStateData, callbacks, deviceOpen,
           wire, devState, task, pollers, used, pollingRate, call >>

None == "none"

\* The setter calls the model makes: << field, value >>.
SetterArgs ==
    { << "LedRed", 255 >>, << "LedRed", 16 >>,
      << "RumbleEmulationRight", 0 >>, << "RumbleEmulationRight", 7 >> }
\* A caller-supplied initial state for Start and SetStateData.
CustomSetStateData ==
    [ defaultSetStateData EXCEPT !.LedRed = 16, !.RumbleEmulationLeft = 1 ]
FullStates == { defaultSetStateData, CustomSetStateData }

\* A task outside any call. res is what its latest call returned. In a
\* Start, v is 0 for Start(nil) and 1 for Start(&s). In a registration, F
\* is the field, v the callback and list the slice the append loaded.
IdleTask ==
    [ pc |-> "idle", op |-> None, F |-> None, v |-> 0,
      new |-> ZeroSetStateData, ok |-> FALSE, res |-> None,
      at |-> ZeroSetStateData, w |-> 0, alone |-> TRUE, list |-> << >> ]

\* The observable fields, in the order triggerCallbacks tests them.
ObservableFields ==
    << "LeftStickX", "LeftStickY", "RightStickX", "RightStickY",
       "TriggerLeft", "TriggerRight", "DPad", "ButtonSquare", "ButtonCross",
       "ButtonCircle", "ButtonTriangle", "ButtonL1", "ButtonR1", "ButtonL2",
       "ButtonR2", "ButtonCreate", "ButtonOptions", "ButtonL3", "ButtonR3",
       "ButtonHome", "ButtonPad", "ButtonMute", "ButtonLeftFunction",
       "ButtonRightFunction", "ButtonLeftPaddle", "ButtonRightPaddle",
       "AngularVelocityX", "AngularVelocityZ", "AngularVelocityY",
       "AccelerometerX", "AccelerometerY", "AccelerometerZ", "Temperature",
       "TouchFinger1", "TouchFinger2", "TriggerRightStopLocation",
       "TriggerRightStatus", "TriggerLeftStopLocation", "TriggerLeftStatus",
       "TriggerRightEffect", "TriggerLeftEffect", "PowerPercent",
       "PowerState", "PluggedHeadphones", "PluggedMic", "MicMuted",
       "PluggedUsbData", "PluggedExternalMic", "HapticLowPassFilter" >>

\* The fields of USBGetStateData in the order of the struct, TouchData by
\* its three members.
GetStateLayout ==
    << "LeftStickX", "LeftStickY", "RightStickX", "RightStickY",
       "TriggerLeft", "TriggerRight", "SeqNo", "DPad", "ButtonSquare",
       "ButtonCross", "ButtonCircle", "ButtonTriangle", "ButtonL1",
       "ButtonR1", "ButtonL2", "ButtonR2", "ButtonCreate", "ButtonOptions",
       "ButtonL3", "ButtonR3", "ButtonHome", "ButtonPad", "ButtonMute",
       "ButtonLeftFunction", "ButtonRightFunction", "ButtonLeftPaddle",
       "ButtonRightPaddle", "AngularVelocityX", "AngularVelocityZ",
       "AngularVelocityY", "AccelerometerX", "AccelerometerY",
       "AccelerometerZ", "SensorTimestamp", "Temperature", "TouchFinger1",
       "TouchFinger2", "TouchTimestamp", "TriggerRightStopLocation",
       "TriggerRightStatus", "TriggerLeftStopLocation", "TriggerLeftStatus",
       "HostTimestamp", "TriggerRightEffect", "TriggerLeftEffect",
       "DeviceTimestamp", "PowerPercent", "PowerState", "PluggedHeadphones",
       "PluggedMic", "MicMuted", "PluggedUsbData", "PluggedUsbPower",
       "PluggedExternalMic", "HapticLowPassFilter", "AesCmac" >>

ObservableSet == { ObservableFields[i] : i \in 1..Len(ObservableFields) }

\* The zero value of the Go struct callbacks: every list is nil.
NoCallbacks == [ f \in ObservableSet |-> << >> ]

\* The outcome of a read nobody made yet.
NoRead == [ err |-> FALSE, n |-> USB_PACKET_SIZE, buf |-> ZeroBuffer ]

\* A listenReportIn goroutine as Start launches it. prev is
\* previousGetStateData; pos, list and idx are triggerCallbacks' position:
\* the field under test, the slice being ranged over, the next callback.
\* Bookkeeping for the properties: last is the outcome of the latest read, fails
\* the failed reads in a row, fired the callbacks invoked for the latest
\* snapshot as << field, callback, value >>, seen the lists as they were
\* when its dispatch began; last, fired and seen last until the sleep ends.
NewPoller ==
    [ pc |-> "top", prev |-> ZeroGetStateData, pos |-> 0, list |-> << >>,
      idx |-> 0, last |-> NoRead, fails |-> 0, fired |-> << >>,
      seen |-> NoCallbacks, dur |-> 0 ]

\* No codec function is being called on its own.
NoCall == [ fn |-> None, arg |-> << >>, done |-> FALSE, ret |-> << >> ]

\* NewDualSense: the struct literal sets device, usbReportInClose and
\* pollingRate; every other field has its zero value.
Init ==
    /\ setStateData = ZeroSetStateData
    /\ setStateDataMu = NoTask
    /\ getStateData = ZeroGetStateData
    /\ callbacks = NoCallbacks
    /\ deviceOpen = TRUE
    /\ wire = << >>
    /\ devState = << >>
    /\ task = [ t \in Tasks |-> IdleTask ]
    /\ pollers = << >>
    /\ used = [ calls |-> 0, starts |-> 0, ops |-> 0, early |-> 0 ]
    /\ pollingRate = DEFAULT_POLLING_RATE
    /\ call = NoCall

\* ---- the write path ----------------------------------------------------

\* A call is made on the first task that is in no call: the tasks are
\* interchangeable goroutines.
Free(t) ==
    /\ task[t].pc = "idle"
    /\ \A u \in Tasks : u < t => task[u].pc # "idle"

\* Bookkeeping for the properties: a task entering a call is alone when every
\* other task is idle, and ends the "alone" of every call in progress. at is
\* the cache as the call found it, kept while the call is alone.
OthersIdle(t) == \A x \in Tasks \ {t} : task[x].pc = "idle"

Entering(t, rec) ==
    [ u \in Tasks |->
        IF u = t
        THEN [ rec EXCEPT !.alone = OthersIdle(t),
                 !.at = IF OthersIdle(t) THEN setStateData ELSE ZeroSetStateData ]
        ELSE IF task[u].pc # "idle"
        THEN [ task[u] EXCEPT !.alone = FALSE, !.at = ZeroSetStateData ]
        ELSE task[u] ]

Returned(res) == [ IdleTask EXCEPT !.res = res ]

\* A setter that lost its test and always writes.
SetterCoalescedNever(cache, F, v) == FALSE

\* if d.setStateData.F != value { ... }: the setter's unlocked test.
SetterCoalesced(cache, F, v) == cache[F] = v

\* A SetStateData that compares one field of the struct.
FullCoalescedLedRed(cache, full) == cache.LedRed = full.LedRed

\* if d.setStateData != setStateData { ... }: SetStateData's unlocked test.
FullCoalesced(cache, full) == cache = full

\* GetOutStateData: return d.setStateData, with no lock.
GetOutStateData == setStateData

\* A setter that fills in the default state instead of a copy of the cache.
WithFieldOfDefault(cache, F, v) == [ defaultSetStateData EXCEPT ![F] = v ]

\* A setter that fills in a fresh struct instead of a copy of the cache.
WithFieldOfZero(cache, F, v) == [ ZeroSetStateData EXCEPT ![F] = v ]

\* newSetStateData := d.setStateData; newSetStateData.F = value
WithField(cache, F, v) == [ cache EXCEPT ![F] = v ]

\* A library whose every operation but Start takes the mutex, readReportIn
\* included.
TakesLockButStart(op) == op # "Start"

\* Whether the operation takes the mutex: the setters and SetStateData
\* bracket writeSetStateData with it, Start and readReportIn do not.
TakesLock(op) == op \in { "Set", "SetStateData" }

\* A writeSetStateData that stores the state whatever Write returned.
CacheAfterWriteAlways(cache, attempted, ok) == attempted

\* writeSetStateData: d.setStateData = setStateData only when Write succeeded.
CacheAfterWrite(cache, attempted, ok) == IF ok THEN attempted ELSE cache

\* A setter that returns the write's error before it unlocks.
UnlockedOnSuccess(mu, t, ok) == IF mu = t /\ ok THEN NoTask ELSE mu

\* d.setStateDataMu.Unlock() follows writeSetStateData whatever it returned;
\* Start, which holds no mutex, unlocks nothing.
Unlocked(mu, t, ok) == IF mu = t THEN NoTask ELSE mu

\* writeSetStateData's return value, passed on by every caller.
WriteResult(ok) == IF ok THEN "ok" ELSE "err"

\* A task calls Set<F>(v).
SetterCall(t, F, v) ==
    /\ Free(t)
    /\ used.calls < MaxCalls
    /\ used' = [ used EXCEPT !.calls = @ + 1 ]
    /\ task' = Entering(t, [ IdleTask EXCEPT !.pc = "test", !.op = "Set",
                                             !.F = F, !.v = v ])
    /\ UNCHANGED << setStateData, setStateDataMu, getStateData, callbacks,
                    deviceOpen, pollingRate, call, wire, devState, pollers >>

\* A task calls SetStateData(full).
SetStateDataCall(t, full) ==
    /\ Free(t)
    /\ used.calls < MaxCalls
    /\ used' = [ used EXCEPT !.calls = @ + 1 ]
    /\ task' = Entering(t, [ IdleTask EXCEPT !.pc = "test",
                                             !.op = "SetStateData", !.new = full ])
    /\ UNCHANGED << setStateData, setStateDataMu, getStateData, callbacks,
                    deviceOpen, pollingRate, call, wire, devState, pollers >>

\* The unlocked test of a setter or of SetStateData: return nil when the
\* cache already holds the value, else go on to Lock.
Test(t) ==
    /\ task[t].pc = "test"
    /\ LET same == IF task[t].op = "Set"
                   THEN SetterCoalesced(setStateData, task[t].F, task[t].v)
                   ELSE FullCoalesced(setStateData, task[t].new)
       IN  task' = [ task EXCEPT ![t] =
                IF same THEN Returned("ok")
                ELSE [ @ EXCEPT !.pc = "lock" ] ]
    /\ UNCHANGED << setStateData, setStateDataMu, getStateData, callbacks,
                    deviceOpen, pollingRate, call, wire, devState, pollers, used >>

\* d.setStateDataMu.Lock(), then the setter's copy of the cache.
Lock(t) ==
    /\ task[t].pc = "lock"
    /\ setStateDataMu = NoTask
    /\ setStateDataMu' = t
    /\ task' = [ task EXCEPT ![t].pc = "write",
                   ![t].new = IF task[t].op = "Set"
                              THEN WithField(setStateData, task[t].F, task[t].v)
                              ELSE @ ]
    /\ UNCHANGED << setStateData, getStateData, callbacks, deviceOpen, pollingRate, call, wire,
                    devState, pollers, used >>

\* A Start that writes the default whatever state it was given.
StartStateDefault(initial) == defaultSetStateData

\* A Start that writes the zero SetStateData for nil.
StartStateZero(initial) ==
    IF initial = << >> THEN ZeroSetStateData ELSE initial[1]

\* Start's argument of writeSetStateData: defaultSetStateData for nil,
\* *initialSetStateData otherwise.
StartState(initial) ==
    IF initial = << >> THEN defaultSetStateData ELSE initial[1]

\* Start(initialSetStateData): go d.listenReportIn(), then the choice of the
\* state to write; initial is << >> for nil and << s >> for &s. Start calls
\* writeSetStateData without taking the mutex.
StartCall(t, initial) ==
    /\ Free(t)
    /\ used.starts < MaxStarts /\ used.ops < MaxOps
    /\ used' = [ used EXCEPT !.starts = @ + 1, !.ops = @ + 1 ]
    /\ pollers' = Append(pollers, NewPoller)
    /\ task' = Entering(t,
          [ IdleTask EXCEPT !.op = "Start",
              !.pc = IF TakesLock("Start") THEN "lock" ELSE "write",
              !.v = Len(initial), !.new = StartState(initial) ])
    /\ UNCHANGED << setStateData, setStateDataMu, getStateData, callbacks,
                    deviceOpen, pollingRate, call, wire, devState >>

\* writeSetStateData, first half: packUSBReportOut and d.device.Write, which
\* succeeds or fails.
DeviceWrite(t) ==
    /\ task[t].pc = "write"
    /\ \E ok \in BOOLEAN :
          /\ task' = [ task EXCEPT ![t].pc = "update", ![t].ok = ok,
                                   ![t].w = @ + 1 ]
          /\ devState' = IF ok THEN << task[t].new >> ELSE devState
    /\ wire' = packUSBReportOut(task[t].new)
    /\ UNCHANGED << setStateData, setStateDataMu, getStateData, callbacks,
                    deviceOpen, pollingRate, call, pollers, used >>

\* A Start that stops the goroutine it launched when its write failed.
PollersAfterWriteStopped(ps, op, ok) ==
    IF op = "Start" /\ ~ok THEN [ ps EXCEPT ![Len(ps)].pc = "done" ] ELSE ps

\* Start returns writeSetStateData's error as it is: the goroutine it
\* launched before the write is left running. No other caller has one.
PollersAfterWrite(ps, op, ok) == ps

\* writeSetStateData, second half: the cache update, then the caller's
\* Unlock (when it holds the mutex) and return.
FinishWrite(t) ==
    /\ task[t].pc = "update"
    /\ pollers' = PollersAfterWrite(pollers, task[t].op, task[t].ok)
    /\ setStateData' = CacheAfterWrite(setStateData, task[t].new, task[t].ok)
    /\ setStateDataMu' = Unlocked(setStateDataMu, t, task[t].ok)
    /\ task' = [ task EXCEPT ![t] = Returned(WriteResult(task[t].ok)) ]
    /\ UNCHANGED << getStateData, callbacks, deviceOpen, pollingRate, call, wire, devState,
                    used >>

NextWrite ==
    \/ \E t \in Tasks, a \in SetterArgs : SetterCall(t, a[1], a[2])
    \/ \E t \in Tasks, full \in FullStates : SetStateDataCall(t, full)
    \/ \E t \in Tasks : Test(t)
    \/ \E t \in Tasks : Lock(t)
    \/ \E t \in Tasks, initial \in { << >>, << CustomSetStateData >> } : StartCall(t, initial)
    \/ \E t \in Tasks : DeviceWrite(t)
    \/ \E t \in Tasks : FinishWrite(t)

\* The write path alone: Start and the mutators in concurrent tasks.
SpecWrite == Init /\ [][NextWrite]_vars

\* Two tasks that have each just called a setter, of different fields F
\* and G, on a device whose cache holds neither value. The cache is the
\* zero value, the default, or a custom state left by an earlier Start.
\* call records the two calls as << F, vF, G, vG >>.
SetterPairs ==
    { << "LedRed", 255, "RumbleEmulationRight", 7 >>,
      << "RumbleEmulationRight", 7, "RumbleEmulationLeft", 9 >>,
      << "LedRed", 16, "RumbleEmulationLeft", 255 >> }

SetterRace(a) ==
    [ t \in Tasks |->
        [ IdleTask EXCEPT !.pc = "test", !.op = "Set", !.alone = FALSE,
            !.F = IF t = 1 THEN a[1] ELSE a[3],
            !.v = IF t = 1 THEN a[2] ELSE a[4] ] ]

InitSetters ==
    /\ setStateData \in { ZeroSetStateData, defaultSetStateData, CustomSetStateData }
    /\ setStateDataMu = NoTask
    /\ getStateData = ZeroGetStateData
    /\ callbacks = NoCallbacks
    /\ deviceOpen = TRUE
    /\ wire = << >>
    /\ devState = << >>
    /\ pollers = << >>
    /\ used = [ calls |-> 2, starts |-> 0, ops |-> 0, early |-> 0 ]
    /\ pollingRate = DEFAULT_POLLING_RATE
    /\ \E a \in SetterPairs :
          /\ setStateData[a[1]] # a[2] /\ setStateData[a[3]] # a[4]
          /\ task = SetterRace(a)
          /\ call = [ NoCall EXCEPT !.fn = "setters", !.arg = a ]

\* One task has just called a setter Set<F>(v) on a device whose cache does
\* not hold v; call records << F, v >>. As long as every call so far
\* returned an error, the first free task calls the same setter with the
\* same value.
InitRetry ==
    /\ setStateData \in { ZeroSetStateData, defaultSetStateData, CustomSetStateData }
    /\ setStateDataMu = NoTask
    /\ getStateData = ZeroGetStateData
    /\ callbacks = NoCallbacks
    /\ deviceOpen = TRUE
    /\ wire = << >>
    /\ devState = << >>
    /\ pollers = << >>
    /\ used = [ calls |-> 1, starts |-> 0, ops |-> 0, early |-> 0 ]
    /\ pollingRate = DEFAULT_POLLING_RATE
    /\ \E a \in SetterArgs, t \in Tasks :
          /\ setStateData[a[1]] # a[2]
          /\ task = [ u \in Tasks |->
                        IF u = t
                        THEN [ IdleTask EXCEPT !.pc = "test", !.op = "Set",
                                 !.F = a[1], !.v = a[2], !.at = setStateData ]
                        ELSE IdleTask ]
          /\ call = [ NoCall EXCEPT !.fn = "retry", !.arg = a ]

RetryCall(t) ==
    /\ \A u \in Tasks : task[u].pc = "idle"
    /\ \E u \in Tasks : task[u].res = "err"
    /\ \A u \in Tasks : task[u].res # "ok"
    /\ SetterCall(t, call.arg[1], call.arg[2])

NextRetry ==
    \/ \E t \in Tasks : RetryCall(t)
    \/ \E t \in Tasks : Test(t)
    \/ \E t \in Tasks : Lock(t)
    \/ \E t \in Tasks : DeviceWrite(t)
    \/ \E t \in Tasks : FinishWrite(t)

\* A setter that is called again each time its write failed.
SpecRetry == InitRetry /\ [][NextRetry]_vars

NextSetters ==
    \/ \E t \in Tasks : Test(t)
    \/ \E t \in Tasks : Lock(t)
    \/ \E t \in Tasks : DeviceWrite(t)
    \/ \E t \in Tasks : FinishWrite(t)

\* Two concurrent setters and nothing else.
SpecSetters == InitSetters /\ [][NextSetters]_vars

\* ---- registration ---------------------------------------------------------

\* The fields the model registers callbacks on. The list of every other
\* field stays empty, so triggerCallbacks has nothing to do for it.
RegFields == { "LeftStickX", "ButtonCross" }

\* The callbacks of one list, and how many are registered in all.
Elems(list) == { list[j] : j \in 1..Len(list) }
Registered == Cardinality(UNION { Elems(callbacks[f]) : f \in RegFields })

\* On<F>Change(callback): append to the field's list. Callbacks are named
\* by their registration number; used.early counts the registrations made
\* before the first Start. This is the call made while no other
\* registration is in progress: its load and its store in one step.
Register(f) ==
    /\ used.ops < MaxOps
    /\ \E t \in Tasks : task[t].pc = "idle"
    /\ used' = [ used EXCEPT !.ops = @ + 1,
                             !.early = IF pollers = << >> THEN @ + 1 ELSE @ ]
    /\ callbacks' = [ callbacks EXCEPT ![f] = Append(@, Registered + 1) ]
    /\ UNCHANGED << setStateData, setStateDataMu, getStateData, deviceOpen, pollingRate, call,
                    wire, devState, task, pollers >>

\* The same call step by step, as concurrent tasks make it:
\* d.callbacks.On<F>Change = append(d.callbacks.On<F>Change, callback) loads
\* the slice, builds the longer one and stores it, with no lock. The
\* callback is named by the number of the call.
RegisterLoad(t, f) ==
    /\ Free(t)
    /\ used.ops < MaxOps
    /\ used' = [ used EXCEPT !.ops = @ + 1 ]
    /\ task' = Entering(t, [ IdleTask EXCEPT !.pc = "append", !.op = "Register",
                                !.F = f, !.v = used.ops + 1,
                                !.list = callbacks[f] ])
    /\ UNCHANGED << setStateData, setStateDataMu, getStateData, callbacks,
                    deviceOpen, pollingRate, call, wire, devState, pollers >>

RegisterStore(t) ==
    /\ task[t].pc = "append"
    /\ callbacks' = [ callbacks EXCEPT ![task[t].F] = Append(task[t].list, task[t].v) ]
    /\ task' = [ task EXCEPT ![t] = Returned("ok") ]
    /\ UNCHANGED << setStateData, setStateDataMu, getStateData, deviceOpen, pollingRate, call,
                    wire, devState, pollers, used >>

NextRegister ==
    \/ \E t \in Tasks, f \in RegFields : RegisterLoad(t, f)
    \/ \E t \in Tasks : RegisterStore(t)

\* Registrations alone, in concurrent tasks.
SpecRegister == Init /\ [][NextRegister]_vars

\* ---- the poller ----------------------------------------------------------

\* The 64-byte reports the device delivers in the model.
ReportZero == [ ZeroBuffer EXCEPT ![1] = 1 ]
ReportCross == [ ReportZero EXCEPT ![9] = 40 ]
ReportCrossStick == [ ReportZero EXCEPT ![9] = 40, ![2] = 128, ![8] = 1 ]
Reports == { ReportZero, ReportCross, ReportCrossStick }

\* What ReadWithTimeout may return: an I/O error, a timeout (0 bytes), a
\* short read, or a full report.
ReadOutcomes ==
    { [ err |-> TRUE, n |-> 0, data |-> ReportZero ],
      [ err |-> FALSE, n |-> 0, data |-> ReportZero ],
      [ err |-> FALSE, n |-> 32, data |-> ReportCross ] }
    \cup { [ err |-> FALSE, n |-> USB_PACKET_SIZE, data |-> r ] : r \in Reports }

\* buffer := make([]byte, USB_PACKET_SIZE), of which the read fills n bytes.
ReadBuffer(r) ==
    [ i \in 1..USB_PACKET_SIZE |-> IF i <= r.n THEN r.data[i] ELSE 0 ]

\* A readReportIn that lost its test of the byte count.
readReportInFailsNoCount(r) ==
    \/ r.err
    \/ unpackUSBReportIn(ReadBuffer(r)).err

\* readReportIn returns an error: for a read error, for a byte count other
\* than 64, and for an unpack error.
readReportInFails(r) ==
    \/ r.err
    \/ r.n # USB_PACKET_SIZE
    \/ unpackUSBReportIn(ReadBuffer(r)).err

\* A triggerCallbacks that compares the whole TouchData for either finger.
FieldOfWholeTouch(g, f) ==
    IF f \in { "TouchFinger1", "TouchFinger2" } THEN g.TouchData ELSE g[f]

\* d.getStateData.F, for the field name F of a callback list.
FieldOf(g, f) ==
    IF f = "TouchFinger1" THEN g.TouchData.TouchFinger1
    ELSE IF f = "TouchFinger2" THEN g.TouchData.TouchFinger2
    ELSE g[f]

\* A triggerCallbacks that tests nothing.
ChangedAlways(cur, prev, f) == TRUE

\* if d.getStateData.F != previousGetStateData.F
Changed(cur, prev, f) == FieldOf(cur, f) # FieldOf(prev, f)

\* select: the receive case can proceed when a Close is blocked sending.
Senders == { t \in Tasks : task[t].pc = "send" }
\* A select without its receive case.
CanReceiveNever(senders) == FALSE

CanReceive(senders) == senders # {}

\* A listenReportIn that returns when readReportIn fails.
AfterReadStop(failed) == IF failed THEN "done" ELSE "dispatch"

\* Where listenReportIn goes after readReportIn: on an error it skips to the
\* sleep, else it publishes the snapshot and dispatches.
AfterRead(failed) == IF failed THEN "sleep" ELSE "dispatch"

Live == { p \in DOMAIN pollers : pollers[p].pc # "done" }

\* Top of the loop: select { case <-d.usbReportInClose: return; default: }.
\* The receive completes the send of one blocked Close, which goes on to
\* device.Close(); with no sender the poller starts a read.
PollTop(p) ==
    /\ pollers[p].pc = "top"
    /\ IF CanReceive(Senders)
       THEN \E t \in Senders :
              /\ task' = [ task EXCEPT ![t].pc = "close" ]
              /\ pollers' = [ pollers EXCEPT ![p].pc = "done" ]
              /\ used' = used
       ELSE /\ used.ops < MaxOps
            /\ used' = [ used EXCEPT !.ops = @ + 1 ]
            /\ pollers' = [ pollers EXCEPT ![p].pc = "read" ]
            /\ task' = task
    /\ UNCHANGED << setStateData, setStateDataMu, getStateData, callbacks,
                    deviceOpen, pollingRate, call, wire, devState >>

\* A poller that always sleeps the default interval.
SleepForDefault(rate) == DEFAULT_POLLING_RATE

\* time.Sleep(d.pollingRate): the poller reads the stored interval when it
\* calls Sleep, and sleeps that long.
SleepFor(rate) == rate

\* A store that leaves LeftStickX as it was.
StoreSnapshotMixed(old, new) == [ new EXCEPT !.LeftStickX = old.LeftStickX ]

\* d.getStateData = reportIn.USBGetStateData: the whole struct is assigned.
StoreSnapshot(old, new) == new

\* A loop that takes its copy after it has stored the new snapshot.
PreviousSnapshotAfterStore(old, new) == new

\* previousGetStateData := d.getStateData, before the new one is stored.
PreviousSnapshot(old, new) == old

\* readReportIn returns; on success previousGetStateData := d.getStateData,
\* d.getStateData = reportIn.USBGetStateData and triggerCallbacks begins.
ReadReturn(p, r) ==
    /\ pollers[p].pc = "read"
    /\ TakesLock("readReportIn") => setStateDataMu = NoTask
    /\ LET failed == readReportInFails(r)
           nextpc == AfterRead(failed)
       IN  /\ pollers' = [ pollers EXCEPT ![p] =
                  [ @ EXCEPT !.pc = nextpc,
                      !.last = [ err |-> r.err, n |-> r.n, buf |-> ReadBuffer(r) ],
                      !.fails = IF failed THEN @ + 1 ELSE 0,
                      !.prev = IF nextpc = "dispatch"
                               THEN PreviousSnapshot(getStateData,
                                        unpackUSBReportIn(ReadBuffer(r)).USBGetStateData)
                               ELSE @,
                      !.pos = IF nextpc = "dispatch" THEN 1 ELSE 0,
                      !.dur = IF nextpc = "sleep" THEN SleepFor(pollingRate) ELSE @,
                      !.fired = << >>,
                      !.seen = IF nextpc = "dispatch" THEN callbacks ELSE NoCallbacks ] ]
           /\ getStateData' =
                  IF nextpc = "dispatch"
                  THEN StoreSnapshot(getStateData,
                           unpackUSBReportIn(ReadBuffer(r)).USBGetStateData)
                  ELSE getStateData
    /\ UNCHANGED << setStateData, setStateDataMu, callbacks, deviceOpen, pollingRate, call, wire,
                    devState, task, used >>

\* A triggerCallbacks that returns before it tests any field.
RegPositionsNone(pos) == { }

\* A triggerCallbacks that starts over from the first field.
RegPositionsAll(pos) ==
    { i \in 1..Len(ObservableFields) : callbacks[ObservableFields[i]] # << >> }

\* The positions at or after pos whose field has callbacks: the range loop
\* of a field with none does nothing, whatever its test says.
RegPositions(pos) ==
    { i \in pos..Len(ObservableFields) : callbacks[ObservableFields[i]] # << >> }
MinOf(S) == CHOOSE i \in S : \A j \in S : i <= j

\* A range loop over the callbacks that were registered before Start.
RangeListEarly(f) == SelectSeq(callbacks[f], LAMBDA cb : cb <= used.early)

\* for _, callback := range d.callbacks.On<F>Change: the list as it is when
\* the loop begins.
RangeList(f) == callbacks[f]

\* triggerCallbacks, between two range loops: the test of the next field,
\* which enters the field's range loop or passes on; after the last field
\* triggerCallbacks returns and the poller sleeps.
DispatchField(p) ==
    /\ pollers[p].pc = "dispatch"
    /\ pollers[p].idx = 0
    /\ LET todo == RegPositions(pollers[p].pos)
       IN  IF todo = {}
           THEN pollers' = [ pollers EXCEPT ![p].pc = "sleep", ![p].pos = 0,
                               ![p].dur = SleepFor(pollingRate) ]
           ELSE LET i == MinOf(todo)
                    f == ObservableFields[i]
                IN  IF Changed(getStateData, pollers[p].prev, f)
                       /\ RangeList(f) # << >>
                    THEN pollers' = [ pollers EXCEPT ![p].pos = i,
                                        ![p].list = RangeList(f), ![p].idx = 1 ]
                    ELSE pollers' = [ pollers EXCEPT ![p].pos = i + 1 ]
    /\ UNCHANGED << setStateData, setStateDataMu, getStateData, callbacks,
                    deviceOpen, pollingRate, call, wire, devState, task, used >>

\* One iteration of a range loop: callback(d.getStateData.F).
Callback(p) ==
    /\ pollers[p].pc = "dispatch"
    /\ pollers[p].idx > 0
    /\ LET f == ObservableFields[pollers[p].pos]
           last == pollers[p].idx = Len(pollers[p].list)
       IN  pollers' = [ pollers EXCEPT ![p] =
              [ @ EXCEPT
                  !.fired = Append(@, << f, pollers[p].list[pollers[p].idx],
                                         FieldOf(getStateData, f) >>),
                  !.idx = IF last THEN 0 ELSE @ + 1,
                  !.list = IF last THEN << >> ELSE @,
                  !.pos = IF last THEN @ + 1 ELSE @ ] ]
    /\ UNCHANGED << setStateData, setStateDataMu, getStateData, callbacks,
                    deviceOpen, pollingRate, call, wire, devState, task, used >>

\* time.Sleep(d.pollingRate) returns.
PollSleep(p) ==
    /\ pollers[p].pc = "sleep"
    /\ pollers' = [ pollers EXCEPT ![p].pc = "top", ![p].last = NoRead,
                        ![p].fired = << >>, ![p].seen = NoCallbacks,
                        ![p].dur = 0 ]
    /\ UNCHANGED << setStateData, setStateDataMu, getStateData, callbacks,
                    deviceOpen, pollingRate, call, wire, devState, task, used >>

\* ---- Close ---------------------------------------------------------------

\* A Close that closes the handle without stopping the poller first.
CloseFirstStepNoSend == "close"

\* Close begins with d.usbReportInClose <- true, a send on an unbuffered
\* channel: the task blocks until a poller receives.
CloseFirstStep == "send"

CloseCall(t) ==
    /\ Free(t)
    /\ used.ops < MaxOps
    /\ used' = [ used EXCEPT !.ops = @ + 1 ]
    /\ task' = Entering(t, [ IdleTask EXCEPT !.op = "Close", !.pc = CloseFirstStep ])
    /\ UNCHANGED << setStateData, setStateDataMu, getStateData, callbacks,
                    deviceOpen, pollingRate, call, wire, devState, pollers >>

\* d.device.Close(), after the send completed; Close returns.
DeviceClose(t) ==
    /\ task[t].pc = "close"
    /\ deviceOpen' = FALSE
    /\ task' = [ task EXCEPT ![t] = Returned("ok") ]
    /\ UNCHANGED << pollingRate, call, setStateData, setStateDataMu,
                    getStateData, callbacks,
                    wire, devState, pollers, used >>

PollerStep(p) ==
    \/ PollTop(p)
    \/ \E r \in ReadOutcomes : ReadReturn(p, r)
    \/ DispatchField(p)
    \/ Callback(p)
    \/ PollSleep(p)

NextPoll ==
    \/ \E t \in Tasks : StartCall(t, << >>)
    \/ \E t \in Tasks : DeviceWrite(t)
    \/ \E t \in Tasks : FinishWrite(t)
    \/ \E f \in RegFields : Register(f)
    \/ \E p \in DOMAIN pollers : PollerStep(p)
    \/ \E t \in Tasks : CloseCall(t)
    \/ \E t \in Tasks : DeviceClose(t)

\* ---- Close from inside a callback ------------------------------------------

\* The pollers blocked in the send of a Close that their callback called.
PollerSenders == { q \in DOMAIN pollers : pollers[q].pc = "send" }

\* The select at the top of the loop when callbacks may call Close: the
\* receive takes the signal of a blocked task or of a blocked poller; the
\* default case runs only when nobody is sending.
PollTopAny(p) ==
    \/ /\ PollerSenders = { } \/ Senders # { }
       /\ PollTop(p)
    \/ /\ pollers[p].pc = "top"
       /\ \E q \in PollerSenders :
             pollers' = [ pollers EXCEPT ![p].pc = "done", ![q].pc = "close" ]
       /\ UNCHANGED << setStateData, setStateDataMu, getStateData, callbacks,
                       deviceOpen, pollingRate, call, wire, devState, task,
                       used >>

\* The callback that triggerCallbacks is about to invoke calls d.Close():
\* the poller's own goroutine begins Close.
CallbackClose(p) ==
    /\ pollers[p].pc = "dispatch"
    /\ pollers[p].idx > 0
    /\ pollers' = [ pollers EXCEPT ![p].pc = CloseFirstStep ]
    /\ UNCHANGED << setStateData, setStateDataMu, getStateData, callbacks,
                    deviceOpen, pollingRate, call, wire, devState, task, used >>

\* d.device.Close() in that Close, after its send completed; Close returns
\* to the callback, the callback to the range loop.
CallbackCloseReturn(p) ==
    /\ pollers[p].pc = "close"
    /\ deviceOpen' = FALSE
    /\ LET f == ObservableFields[pollers[p].pos]
           last == pollers[p].idx = Len(pollers[p].list)
       IN  pollers' = [ pollers EXCEPT ![p] =
              [ @ EXCEPT
                  !.pc = "dispatch",
                  !.fired = Append(@, << f, pollers[p].list[pollers[p].idx],
                                         FieldOf(getStateData, f) >>),
                  !.idx = IF last THEN 0 ELSE @ + 1,
                  !.list = IF last THEN << >> ELSE @,
                  !.pos = IF last THEN @ + 1 ELSE @ ] ]
    /\ UNCHANGED << setStateData, setStateDataMu, getStateData, callbacks,
                    pollingRate, call, wire, devState, task, used >>

\* NewDualSense followed by one OnButtonCrossChange.
InitClose ==
    /\ setStateData = ZeroSetStateData
    /\ setStateDataMu = NoTask
    /\ getStateData = ZeroGetStateData
    /\ callbacks = [ NoCallbacks EXCEPT !["ButtonCross"] = << 1 >> ]
    /\ deviceOpen = TRUE
    /\ wire = << >>
    /\ devState = << >>
    /\ task = [ t \in Tasks |-> IdleTask ]
    /\ pollers = << >>
    /\ used = [ calls |-> 0, starts |-> 0, ops |-> 0, early |-> 1 ]
    /\ pollingRate = DEFAULT_POLLING_RATE
    /\ call = NoCall

NextClose ==
    \/ \E t \in Tasks : StartCall(t, << >>)
    \/ \E t \in Tasks : DeviceWrite(t)
    \/ \E t \in Tasks : FinishWrite(t)
    \/ \E t \in Tasks : CloseCall(t)
    \/ \E t \in Tasks : DeviceClose(t)
    \/ \E p \in DOMAIN pollers : PollTopAny(p)
    \/ \E p \in DOMAIN pollers, r \in ReadOutcomes : ReadReturn(p, r)
    \/ \E p \in DOMAIN pollers : DispatchField(p)
    \/ \E p \in DOMAIN pollers : Callback(p)
    \/ \E p \in DOMAIN pollers : CallbackClose(p)
    \/ \E p \in DOMAIN pollers : CallbackCloseReturn(p)
    \/ \E p \in DOMAIN pollers : PollSleep(p)

\* Close called by tasks and by callbacks.
SpecClose == InitClose /\ [][NextClose]_vars

\* ---- triggerCallbacks on its own -------------------------------------------

\* Reports that differ from ReportZero in one field the library does not
\* observe (SeqNo, SensorTimestamp, the touch timestamp, HostTimestamp,
\* DeviceTimestamp, AesCmac, PluggedUsbPower), and two that differ in an
\* observed one (TouchFinger1, ButtonCross).
DispatchReports ==
    { ReportZero, ReportCross, [ ReportZero EXCEPT ![34] = 5 ],
      [ ReportZero EXCEPT ![55] = 16 ] }
    \cup { [ ReportZero EXCEPT ![o + 1] = 1 ] : o \in { 7, 28, 41, 44, 49, 56, 63 } }

\* The device after Start(nil) succeeded, one callback was registered on
\* every observable field, and the poller read report a and then report b:
\* it has stored b's snapshot and is about to run triggerCallbacks.
InitDispatch ==
    /\ setStateData = defaultSetStateData
    /\ setStateDataMu = NoTask
    /\ callbacks = [ f \in ObservableSet |->
                       << CHOOSE i \in 1..Len(ObservableFields) :
                              ObservableFields[i] = f >> ]
    /\ deviceOpen = TRUE
    /\ wire = packUSBReportOut(defaultSetStateData)
    /\ devState = << defaultSetStateData >>
    /\ task = [ t \in Tasks |-> IdleTask ]
    /\ used = [ calls |-> 0, starts |-> 1, ops |-> MaxOps,
               early |-> Len(ObservableFields) ]
    /\ pollingRate = DEFAULT_POLLING_RATE
    /\ call = NoCall
    /\ \E a, b \in DispatchReports :
          /\ getStateData = unpackUSBReportIn(b).USBGetStateData
          /\ pollers = << [ NewPoller EXCEPT !.pc = "dispatch", !.pos = 1,
                              !.prev = unpackUSBReportIn(a).USBGetStateData,
                              !.seen = callbacks ] >>

NextDispatch ==
    \E p \in DOMAIN pollers : DispatchField(p) \/ Callback(p) \/ PollSleep(p)

\* One run of triggerCallbacks for each pair of snapshots.
SpecDispatch == InitDispatch /\ [][NextDispatch]_vars

\* The device after Start(nil) succeeded and OnButtonCrossChange was called
\* once: the poller is at the top of its loop.
InitReadWrite ==
    /\ setStateData = defaultSetStateData
    /\ setStateDataMu = NoTask
    /\ getStateData = ZeroGetStateData
    /\ callbacks = [ NoCallbacks EXCEPT !["ButtonCross"] = << 1 >> ]
    /\ deviceOpen = TRUE
    /\ wire = packUSBReportOut(defaultSetStateData)
    /\ devState = << defaultSetStateData >>
    /\ task = [ t \in Tasks |-> IdleTask ]
    /\ pollers = << NewPoller >>
    /\ used = [ calls |-> 0, starts |-> 1, ops |-> 2, early |-> 0 ]
    /\ pollingRate = DEFAULT_POLLING_RATE
    /\ call = NoCall

NextReadWrite ==
    \/ \E t \in Tasks, a \in SetterArgs : SetterCall(t, a[1], a[2])
    \/ \E t \in Tasks : Test(t)
    \/ \E t \in Tasks : Lock(t)
    \/ \E t \in Tasks : DeviceWrite(t)
    \/ \E t \in Tasks : FinishWrite(t)
    \/ \E p \in DOMAIN pollers : PollerStep(p)

\* The poller and the setters side by side.
SpecReadWrite == InitReadWrite /\ [][NextReadWrite]_vars

\* The same device with Close called as well.
NextCloseWrite ==
    \/ \E t \in Tasks, a \in SetterArgs : SetterCall(t, a[1], a[2])
    \/ \E t \in Tasks : Test(t)
    \/ \E t \in Tasks : Lock(t)
    \/ \E t \in Tasks : DeviceWrite(t)
    \/ \E t \in Tasks : FinishWrite(t)
    \/ \E p \in DOMAIN pollers : PollerStep(p)
    \/ \E t \in Tasks : CloseCall(t)
    \/ \E t \in Tasks : DeviceClose(t)

\* The setters, the poller and Close side by side.
SpecCloseWrite == InitReadWrite /\ [][NextCloseWrite]_vars

\* ---- the codec on its own --------------------------------------------------

\* The SetStateData values the model packs: defaultSetStateData with one
\* group of fields replaced. Each flag byte gets every assignment of its
\* booleans; each sub-byte field gets the values of its width, the first
\* values beyond it and 255; each raw byte gets 0, 1 and 255.
BoolsOf(n) == [ k \in 1..8 |-> Bit(n, k - 1) = 1 ]

WithFlags0(s, b) ==
    [ s EXCEPT !.EnableRumbleEmulation = b[1], !.UseRumbleNotHaptics = b[2],
        !.AllowRightTriggerFFB = b[3], !.AllowLeftTriggerFFB = b[4],
        !.AllowHeadphoneVolume = b[5], !.AllowSpeakerVolume = b[6],
        !.AllowMicVolume = b[7], !.AllowAudioControl = b[8] ]

WithFlags1(s, b) ==
    [ s EXCEPT !.AllowMuteLight = b[1], !.AllowAudioMute = b[2],
        !.AllowLedColor = b[3], !.ResetLights = b[4],
        !.AllowPlayerIndicators = b[5], !.AllowHapticLowPassFilter = b[6],
        !.AllowMotorPowerLevel = b[7], !.AllowAudioControl2 = b[8] ]

WithMuteControl(s, b) ==
    [ s EXCEPT !.TouchPowerSave = b[1], !.MotionPowerSave = b[2],
        !.HapticPowerSave = b[3], !.AudioPowerSave = b[4], !.MicMute = b[5],
        !.SpeakerMute = b[6], !.HeadphoneMute = b[7], !.HapticMute = b[8] ]

\* The six player-indicator booleans; the same assignment also varies the
\* booleans of SetFlags38 and SetFlags39.
WithPlayerLights(s, b) ==
    [ s EXCEPT !.PlayerLight1 = b[1], !.PlayerLight2 = b[2],
        !.PlayerLight3 = b[3], !.PlayerLight4 = b[4], !.PlayerLight5 = b[5],
        !.PlayerLightFade = b[6],
        !.AllowLightBrightnessChange = b[7],
        !.AllowColorLightFadeAnimation = b[8],
        !.EnableImprovedRumbleEmulation = b[1],
        !.HapticLowPassFilter = b[2] ]

NarrowValues == { 0, 1, 2, 3, 4, 5, 255 }
GainValues == { 0, 1, 2, 3, 4, 5, 6, 7, 8, 9, 255 }
NibbleValues == { 0, 1, 2, 7, 8, 15, 16, 17, 128, 255 }
RawValues == { 0, 1, 255 }
RawFields ==
    { "RumbleEmulationRight", "RumbleEmulationLeft", "VolumeHeadphones",
      "VolumeSpeaker", "VolumeMic", "MuteLight", "LightFadeAnimation",
      "LightBrightness", "LedRed", "LedGreen", "LedBlue" }
TimestampValues == { 1, 256, 65536, 16777216, 2147483647 }

PackInputs ==
    { WithFlags0(defaultSetStateData, BoolsOf(n)) : n \in 0..255 }
    \cup { WithFlags1(defaultSetStateData, BoolsOf(n)) : n \in 0..255 }
    \cup { WithMuteControl(defaultSetStateData, BoolsOf(n)) : n \in 0..255 }
    \cup { WithPlayerLights(defaultSetStateData, BoolsOf(n)) : n \in 0..255 }
    \cup { [ defaultSetStateData EXCEPT !.MicSelect = m,
              !.EchoCancelEnable = e, !.NoiseCancelEnable = c,
              !.OutputPathSelect = o, !.InputPathSelect = i ] :
                m \in NarrowValues, e \in BOOLEAN, c \in BOOLEAN,
                o \in NarrowValues, i \in NarrowValues }
    \cup { [ defaultSetStateData EXCEPT !.SpeakerCompPreGain = g,
              !.BeamformingEnable = b ] : g \in GainValues, b \in BOOLEAN }
    \cup { [ defaultSetStateData EXCEPT !.TriggerMotorPowerReduction = x,
              !.RumbleMotorPowerReduction = y ] :
                x \in NibbleValues, y \in NibbleValues }
    \cup { [ defaultSetStateData EXCEPT ![F] = v ] :
                F \in RawFields, v \in RawValues }
    \cup { [ defaultSetStateData EXCEPT !.HostTimestamp = v ] :
                v \in TimestampValues }
    \cup { [ defaultSetStateData EXCEPT
              !.RightTriggerFFB = [ ZeroFFB EXCEPT ![k] = 255 ],
              !.LeftTriggerFFB = [ ZeroFFB EXCEPT ![12 - k] = 1 ] ] :
                k \in 1..11 }
    \cup { ZeroSetStateData }

\* The buffers the model unpacks: of 64 bytes and of other lengths.
BufferOf(n, v) == [ i \in 1..n |-> v ]
OtherLengths == { 0, 1, 47, 48, 63, 65, 128 }
UnpackInputs ==
    { BufferOf(n, v) : n \in OtherLengths \cup { USB_PACKET_SIZE }, v \in { 0, 1, 255 } }
    \cup { [ ReportZero EXCEPT ![k] = v ] : k \in 2..USB_PACKET_SIZE, v \in { 9, 240 } }
    \cup DispatchReports \cup Reports

\* packUSBReportOut(setStateData) called on its own: binary.Write of the
\* fixed-size packedUSBReportOut into a bytes.Buffer returns no error.
PackCall ==
    /\ call.fn = "packUSBReportOut" /\ ~call.done
    /\ call' = [ call EXCEPT !.done = TRUE,
                 !.ret = [ err |-> FALSE, data |-> packUSBReportOut(call.arg) ] ]
    /\ UNCHANGED << setStateData, setStateDataMu, getStateData, callbacks,
                    deviceOpen, pollingRate, wire, devState, task, pollers, used >>

\* unpackUSBReportIn(data) called on its own.
UnpackCall ==
    /\ call.fn = "unpackUSBReportIn" /\ ~call.done
    /\ call' = [ call EXCEPT !.done = TRUE, !.ret = unpackUSBReportIn(call.arg) ]
    /\ UNCHANGED << setStateData, setStateDataMu, getStateData, callbacks,
                    deviceOpen, pollingRate, wire, devState, task, pollers, used >>

\* One call of a codec function, for each input.
InitCodec ==
    /\ setStateData = ZeroSetStateData
    /\ setStateDataMu = NoTask
    /\ getStateData = ZeroGetStateData
    /\ callbacks = NoCallbacks
    /\ deviceOpen = TRUE
    /\ wire = << >>
    /\ devState = << >>
    /\ task = [ t \in Tasks |-> IdleTask ]
    /\ pollers = << >>
    /\ used = [ calls |-> 0, starts |-> 0, ops |-> 0, early |-> 0 ]
    /\ pollingRate = DEFAULT_POLLING_RATE
    /\ \/ \E s \in PackInputs :
             call = [ NoCall EXCEPT !.fn = "packUSBReportOut", !.arg = s ]
       \/ \E b \in UnpackInputs :
             call = [ NoCall EXCEPT !.fn = "unpackUSBReportIn", !.arg = b ]

NextCodec == PackCall \/ UnpackCall

SpecCodec == InitCodec /\ [][NextCodec]_vars

\* ---- the poller and the enums of a report -----------------------------------

\* Reports that hold each value of the D-pad nibble (low nibble of byte 8)
\* and each value of the PowerState nibble (high nibble of byte 53).
EnumReports ==
    { [ ReportZero EXCEPT ![9] = k ] : k \in 0..15 }
    \cup { [ ReportZero EXCEPT ![54] = 16 * k ] : k \in 0..15 }

EnumOutcomes ==
    { [ err |-> FALSE, n |-> USB_PACKET_SIZE, data |-> r ] : r \in EnumReports }

\* The device after Start(nil) succeeded, with a callback on DPad and one on
\* PowerState, the poller at the top of its loop and two reads to come.
InitEnum ==
    /\ setStateData = defaultSetStateData
    /\ setStateDataMu = NoTask
    /\ getStateData = ZeroGetStateData
    /\ callbacks = [ NoCallbacks EXCEPT !["DPad"] = << 1 >>,
                                        !["PowerState"] = << 2 >> ]
    /\ deviceOpen = TRUE
    /\ wire = packUSBReportOut(defaultSetStateData)
    /\ devState = << defaultSetStateData >>
    /\ task = [ t \in Tasks |-> IdleTask ]
    /\ pollers = << NewPoller >>
    /\ used = [ calls |-> 0, starts |-> 1, ops |-> MaxOps - 2, early |-> 2 ]
    /\ pollingRate = DEFAULT_POLLING_RATE
    /\ call = NoCall

NextEnum ==
    \E p \in DOMAIN pollers :
        \/ PollTop(p)
        \/ \E r \in EnumOutcomes : ReadReturn(p, r)
        \/ DispatchField(p)
        \/ Callback(p)
        \/ PollSleep(p)

\* The poller reading reports with every enum value.
SpecEnum == InitEnum /\ [][NextEnum]_vars

\* ---- SetPollingRate --------------------------------------------------------

\* The rates the model passes to SetPollingRate, in Hz.
RateInputs == { 1, 3, 7, 20, 30, 999, 1000, 1001, 2000 }

\* A SetPollingRate that rounds the quotient up.
PollingIntervalCeil(hz) == (1000 + hz - 1) \div hz

\* time.Duration(1000/pollingRateHz) * time.Millisecond, in milliseconds:
\* Go's integer division of two positive ints.
PollingInterval(hz) == 1000 \div hz

\* SetPollingRate(hz), hz >= 1: one unlocked store to d.pollingRate. The
\* task keeps the call it just made in op and v.
SetPollingRate(t, hz) ==
    /\ Free(t)
    /\ used.calls < MaxCalls
    /\ used' = [ used EXCEPT !.calls = @ + 1 ]
    /\ pollingRate' = PollingInterval(hz)
    /\ task' = [ task EXCEPT ![t] =
                   [ Returned("ok") EXCEPT !.op = "SetPollingRate", !.v = hz ] ]
    /\ UNCHANGED << setStateData, setStateDataMu, getStateData, callbacks,
                    deviceOpen, call, wire, devState, pollers >>

NextRate ==
    \/ \E t \in Tasks, hz \in RateInputs : SetPollingRate(t, hz)
    \/ \E p \in DOMAIN pollers : PollerStep(p)

\* The poller and SetPollingRate side by side.
SpecRate == InitReadWrite /\ [][NextRate]_vars

\* Start, the poller with its observers, and Close.
SpecPoll == Init /\ [][NextPoll]_vars

\* The same under the scheduling the runtime gives: a runnable poller
\* goroutine and a Close past its send keep running (every read and every
\* callback returns); nothing obliges the application to call anything.
SpecPollFair ==
    /\ SpecPoll
    /\ \A p \in 1..(MaxStarts + 1) : WF_vars(p \in DOMAIN pollers /\ PollerStep(p))
    /\ \A t \in Tasks : WF_vars(DeviceClose(t))

\* ------------------------------------------------------------------------
\* Properties of the write path
\* ------------------------------------------------------------------------
\* Task t takes a step of its own call that moves it from pc a.
Moves(t, a) == task[t].pc = a /\ task'[t].pc # a

\* C1 (mutator coalescing). For a setter Set<F>(v) called by a single
\* caller with no other writer active: when the cached F equals v the call
\* returns nil at its test with no device write and nothing changed; when
\* the cached F differs the call goes on to issue exactly one device write,
\* whose bytes are pack(cache as the call found it, with F replaced by v),
\* and a successful write leaves exactly that state in the cache.
C1_Step ==
    \A t \in Tasks :
        (task[t].op = "Set" /\ task[t].alone) =>
            LET F == task[t].F
                v == task[t].v
                want == WithField(task[t].at, F, v)
            IN  /\ Moves(t, "test") =>
                    IF task[t].at[F] = v
                    THEN /\ task'[t] = Returned("ok")
                         /\ task[t].w = 0
                         /\ UNCHANGED << wire, devState, setStateData >>
                    ELSE task'[t].pc = "lock" /\ task'[t].w = 0
                /\ Moves(t, "lock") =>
                    /\ task'[t].pc = "write" /\ task'[t].w = 0
                    /\ UNCHANGED << wire, devState, setStateData >>
                /\ Moves(t, "write") =>
                    /\ task'[t].pc = "update" /\ task'[t].w = 1
                    /\ wire' = packUSBReportOut(want)
                    /\ setStateData' = setStateData
                /\ Moves(t, "update") =>
                    /\ task'[t].pc = "idle" /\ task[t].w = 1
                    /\ wire' = wire
                    /\ task[t].ok => setStateData' = want

C1_MutatorCoalescing == [][C1_Step]_vars

\* S5 of the specification, the written case: from the default cache a lone
\* SetLedRed(0x10) has issued its one write, of pack(default with LedRed 0x10).
C1_Witness ==
    \E t \in Tasks :
        /\ task[t].op = "Set" /\ task[t].alone /\ task[t].pc = "update"
        /\ task[t].F = "LedRed" /\ task[t].v = 16 /\ task[t].ok
        /\ task[t].at = defaultSetStateData
        /\ wire = packUSBReportOut([ defaultSetStateData EXCEPT !.LedRed = 16 ])

\* C2 (write atomicity). For every call that reaches the device (a setter,
\* SetStateData or Start): when its Write failed it returns an error and
\* leaves the cache as it is (as the call found it, for a lone caller); when
\* its Write succeeded it returns nil and leaves the written state in the
\* cache. The cache changes in no other step.
C2_Step ==
    /\ \A t \in Tasks :
          Moves(t, "update") =>
              IF task[t].ok
              THEN setStateData' = task[t].new /\ task'[t] = Returned("ok")
              ELSE /\ setStateData' = setStateData
                   /\ task'[t] = Returned("err")
                   /\ task[t].alone => setStateData' = task[t].at
    /\ setStateData' # setStateData =>
          \E t \in Tasks : /\ Moves(t, "update") /\ task[t].ok /\ task[t].w = 1
                           /\ setStateData' = task[t].new

C2_WriteAtomicity == [][C2_Step]_vars

\* A call returned an error after its Write failed on the fresh device: the
\* bytes went out, the cache still has its initial value.
C2_Witness ==
    \E t \in Tasks :
        /\ task[t].res = "err" /\ wire # << >>
        /\ devState = << >> /\ setStateData = ZeroSetStateData

\* C5 (the cache tracks the device). Whenever no task is between its device
\* Write and its cache update, the cache equals the state carried by the
\* latest successful Write (its initial value when none succeeded yet).
C5_CacheTracksDevice ==
    (\A t \in Tasks : task[t].pc # "update") =>
        IF devState = << >> THEN setStateData = ZeroSetStateData
        ELSE setStateData = devState[1]

\* C6 (one write critical section). A task that is inside
\* pack + Write + cache update holds the mutex, and no two tasks are inside
\* at once.
C6_SingleCriticalSection ==
    /\ \A t \in Tasks :
          task[t].pc \in { "write", "update" } => setStateDataMu = t
    /\ \A t, u \in Tasks :
          (t # u /\ task[t].pc \in { "write", "update" })
              => task[u].pc \notin { "write", "update" }

\* ------------------------------------------------------------------------
\* Properties of the poller and of Close
\* ------------------------------------------------------------------------
SinglePoller == Len(pollers) <= 1
ReadFailed(q) == q.last.err \/ q.last.n # USB_PACKET_SIZE
Count(fired, f, cb) ==
    Cardinality({ k \in 1..Len(fired) : fired[k][1] = f /\ fired[k][2] = cb })
\* Poller p takes a step that moves it from pc a.
PMoves(p, a) == pollers[p].pc = a /\ pollers'[p].pc # a

C4_Step ==
    \A p \in DOMAIN pollers :
        /\ (PMoves(p, "read") /\ ReadFailed(pollers'[p])) =>
              /\ getStateData' = getStateData
              /\ pollers'[p].pc = "sleep"
              /\ pollers'[p].fired = << >>
              /\ pollers'[p].prev = pollers[p].prev
        /\ (PMoves(p, "sleep") /\ ReadFailed(pollers[p])) =>
              /\ pollers[p].fired = << >>
              /\ pollers'[p].pc = "top"
              /\ getStateData' = getStateData
        /\ PMoves(p, "top") => pollers'[p].pc \in { "read", "done" }

C4_FailedReadSkipped == [][C4_Step]_vars

\* A 32-byte read after a snapshot with ButtonCross pressed: the snapshot
\* is still there and the poller sleeps.
C4_Witness ==
    \E p \in DOMAIN pollers :
        /\ pollers[p].pc = "sleep" /\ pollers[p].last.n = 32
        /\ getStateData.ButtonCross /\ pollers[p].fired = << >>
        /\ callbacks["ButtonCross"] # << >>

\* C7 (Close is idempotent for the user). Once a Close has completed, a
\* further Close is not left blocked on its send with no poller to receive.
C7_SecondCloseReturns ==
    \A t \in Tasks : (task[t].pc = "send" /\ ~deviceOpen) => Live # {}

\* C8 (stop ordering). With one poller: the handle is closed only after the
\* poller received the stop signal; the poller receives it only at the top
\* of an iteration, no callback of a snapshot outstanding, the handle still
\* open; and once the handle is closed the poller takes no step.
C8_Step ==
    Len(pollers') <= 1 =>
        /\ (deviceOpen /\ ~deviceOpen') =>
              Len(pollers) = 1 /\ pollers[1].pc = "done"
        /\ \A p \in DOMAIN pollers :
              (pollers[p].pc # "done" /\ pollers'[p].pc = "done") =>
                  /\ pollers[p].pc = "top" /\ pollers[p].idx = 0
                  /\ deviceOpen
        /\ ~deviceOpen => \A p \in DOMAIN pollers : pollers'[p] = pollers[p]

C8_StopOrdering == [][C8_Step]_vars

\* The handle is closed, the one poller has returned, and the snapshot with
\* ButtonCross pressed was dispatched to a registered callback before.
C8_Witness ==
    /\ ~deviceOpen /\ Len(pollers) = 1 /\ pollers[1].pc = "done"
    /\ getStateData.ButtonCross /\ callbacks["ButtonCross"] # << >>

C10_Step ==
    \A p \in DOMAIN pollers :
        /\ (pollers[p].pc # "done" /\ pollers'[p].pc = "done") =>
              /\ pollers[p].pc = "top"
              /\ \E t \in Tasks : task[t].pc = "send" /\ task'[t].pc = "close"
        /\ (PMoves(p, "read") /\ ReadFailed(pollers'[p])) =>
              pollers'[p].pc = "sleep"
        /\ PMoves(p, "sleep") => pollers'[p].pc = "top"

C10_PollerSurvivesErrors == [][C10_Step]_vars

\* Two failed reads in a row, and the poller is back at the top of its loop.
C10_Witness ==
    \E p \in DOMAIN pollers : pollers[p].fails = 2 /\ pollers[p].pc = "top"

\* ------------------------------------------------------------------------
\* Properties of Start, of the dispatch and of registration
\* ------------------------------------------------------------------------

\* C11 (at most one poller). Whatever Start and Close calls were made, at
\* most one listenReportIn goroutine is running.
C11_AtMostOnePoller == Cardinality(Live) <= 1

\* C12 (Start writes the initial state). Start launches one poller and
\* goes on to one device write, of pack(default SetState) for Start(nil) and
\* of pack(s) for Start(&s); it returns after that one write, and when the
\* write succeeded the cache then holds the state written.
C12_Step ==
    \A t \in Tasks :
        /\ (task[t].pc = "idle" /\ task'[t].op = "Start") =>
              /\ pollers' = Append(pollers, NewPoller)
              /\ task'[t].pc \in { "lock", "write" } /\ task'[t].w = 0
              /\ task'[t].new = IF task'[t].v = 0 THEN defaultSetStateData
                                ELSE CustomSetStateData
        /\ (task[t].op = "Start" /\ Moves(t, "lock")) => task'[t].pc = "write"
        /\ (task[t].op = "Start" /\ Moves(t, "write")) =>
              /\ wire' = packUSBReportOut(task[t].new)
              /\ task'[t].pc = "update" /\ task'[t].w = 1
              /\ task'[t].new = task[t].new
        /\ (task[t].op = "Start" /\ Moves(t, "update")) =>
              /\ task[t].w = 1 /\ task'[t].pc = "idle"
              /\ task'[t].res = WriteResult(task[t].ok)
              /\ task[t].ok => setStateData' = task[t].new

C12_StartWritesInitial == [][C12_Step]_vars

\* Start(&s) has returned nil, no mutator was ever called: the device and
\* the cache hold s, the bytes written are pack(s), and a poller runs.
C12_Witness ==
    /\ used.calls = 0 /\ used.starts = 1 /\ Len(pollers) = 1
    /\ \A t \in Tasks : task[t].pc = "idle"
    /\ \E t \in Tasks : task[t].res = "ok"
    /\ setStateData = CustomSetStateData
    /\ wire = packUSBReportOut(CustomSetStateData)

\* The place of a field in the GetState layout.
Rank(f) == CHOOSE i \in 1..Len(GetStateLayout) : GetStateLayout[i] = f

\* triggerCallbacks tests the observable fields in the order of the layout.
TestsFollowLayout ==
    \A i, j \in 1..Len(ObservableFields) :
        i < j => Rank(ObservableFields[i]) < Rank(ObservableFields[j])

\* C13 (dispatch order). Of two callbacks invoked for one snapshot
\* transition, the earlier is on a field earlier in the GetState layout, or
\* both are on one field and the earlier was registered first (callbacks
\* are numbered as they are registered).
C13_DispatchOrder ==
    /\ TestsFollowLayout
    /\ \A p \in DOMAIN pollers :
          \A j, k \in 1..Len(pollers[p].fired) :
              j < k =>
                  LET a == pollers[p].fired[j]
                      b == pollers[p].fired[k]
                  IN  \/ Rank(a[1]) < Rank(b[1])
                      \/ a[1] = b[1] /\ a[2] < b[2]

\* One snapshot changed LeftStickX and ButtonCross, each with a callback:
\* the callback on LeftStickX ran, then the one on ButtonCross.
C13_Witness ==
    \E p \in DOMAIN pollers :
        /\ Len(pollers[p].fired) = 2
        /\ pollers[p].fired[1][1] = "LeftStickX"
        /\ pollers[p].fired[2][1] = "ButtonCross"

\* C14 (dispatch completes before the next read). A poller that decoded a
\* snapshot goes into triggerCallbacks and leaves it only after the last
\* field, no range loop open; it invokes callbacks nowhere else; and it
\* issues a read only from the top of the loop, which it reaches only from
\* the sleep that follows triggerCallbacks. So each callback it invokes for
\* a snapshot has returned before it reads again.
C14_Step ==
    \A p \in DOMAIN pollers :
        /\ (PMoves(p, "read") /\ ~ReadFailed(pollers'[p])) =>
              pollers'[p].pc = "dispatch" /\ pollers'[p].fired = << >>
        /\ PMoves(p, "dispatch") =>
              /\ pollers'[p].pc = "sleep"
              /\ pollers[p].idx = 0
              /\ \A i \in 1..Len(ObservableFields) :
                    callbacks[ObservableFields[i]] # << >> => i < pollers[p].pos
              /\ pollers'[p].fired = pollers[p].fired
        /\ (Len(pollers'[p].fired) > Len(pollers[p].fired)) =>
              pollers[p].pc = "dispatch" /\ pollers'[p].pc = "dispatch"
        /\ (pollers[p].pc # "read" /\ pollers'[p].pc = "read") =>
              pollers[p].pc = "top"
        /\ (pollers[p].pc # "top" /\ pollers'[p].pc = "top") =>
              pollers[p].pc = "sleep"

C14_DispatchBeforeNextRead == [][C14_Step]_vars

\* Both callbacks on ButtonCross have returned and the poller is in its
\* sleep, the next read not yet issued.
C14_Witness ==
    \E p \in DOMAIN pollers :
        /\ pollers[p].pc = "sleep" /\ pollers[p].idx = 0
        /\ Len(pollers[p].fired) = 2
        /\ pollers[p].fired[1][1] = "ButtonCross"
        /\ pollers[p].fired[2][1] = "ButtonCross"

\* The snapshots the reports of the model decode to.
DecodedReports == { unpackUSBReportIn(r).USBGetStateData : r \in Reports }

\* C15 (snapshot atomicity for observers). With the one poller: the stored
\* GetState is replaced as a whole by the decoded snapshot before
\* triggerCallbacks begins, it does not change while triggerCallbacks runs,
\* and each callback is passed the stored snapshot's field. A callback
\* reading the stored GetState sees the new snapshot on every field.
C15_Step ==
    Len(pollers') <= 1 =>
        \A p \in DOMAIN pollers :
            /\ (PMoves(p, "read") /\ pollers'[p].pc = "dispatch") =>
                  /\ getStateData' \in DecodedReports
                  /\ pollers'[p].prev = getStateData
            /\ pollers[p].pc = "dispatch" =>
                  /\ getStateData' = getStateData
                  /\ getStateData \in DecodedReports
            /\ (Len(pollers'[p].fired) > Len(pollers[p].fired)) =>
                  LET e == pollers'[p].fired[Len(pollers'[p].fired)]
                  IN  e[3] = FieldOf(getStateData', e[1])

Unobserved ==
    { "SeqNo", "SensorTimestamp", "HostTimestamp", "DeviceTimestamp",
      "AesCmac", "PluggedUsbPower" }

\* cur and prev differ in nothing but unobserved fields and the timestamp
\* of TouchData.
OnlyUnobservedDiffer(cur, prev) ==
    /\ \A f \in (DOMAIN cur \ Unobserved) \ { "TouchData" } : cur[f] = prev[f]
    /\ cur.TouchData.TouchFinger1 = prev.TouchData.TouchFinger1
    /\ cur.TouchData.TouchFinger2 = prev.TouchData.TouchFinger2

\* C16 (unobserved fields fire nothing). With a callback registered on every
\* observable field, a snapshot that differs from the previous one only in
\* SeqNo, the timestamps (that of TouchData included), AesCmac or
\* PluggedUsbPower has no callback invoked for it.
C16_UnobservedFireNothing ==
    \A p \in DOMAIN pollers :
        OnlyUnobservedDiffer(getStateData, pollers[p].prev) =>
            pollers[p].fired = << >> /\ pollers[p].idx = 0

\* triggerCallbacks is over for a snapshot that differs from the previous
\* one in the touch timestamp: the callbacks on TouchFinger1 and
\* TouchFinger2, registered, did not run.
C16_Witness ==
    \E p \in DOMAIN pollers :
        /\ pollers[p].pc = "sleep" /\ pollers[p].fired = << >>
        /\ getStateData.TouchData.Timestamp # pollers[p].prev.TouchData.Timestamp
        /\ OnlyUnobservedDiffer(getStateData, pollers[p].prev)
        /\ callbacks["TouchFinger1"] # << >> /\ callbacks["TouchFinger2"] # << >>

IsPrefix(a, b) == Len(a) <= Len(b) /\ \A i \in 1..Len(a) : a[i] = b[i]

\* C17 (observer lists are append-only). In every step each callback list
\* stays as it is or grows at its end: the list before is a prefix of the
\* list after.
C17_Step == \A f \in ObservableSet : IsPrefix(callbacks[f], callbacks'[f])

C17_AppendOnly == [][C17_Step]_vars

C19_Step ==
    \A t \in Tasks :
        task[t].op = "SetStateData" =>
            LET full == task[t].new
            IN  /\ Moves(t, "test") =>
                    IF \A F \in DOMAIN full : setStateData[F] = full[F]
                    THEN /\ task'[t] = Returned("ok")
                         /\ task[t].w = 0
                         /\ UNCHANGED << wire, devState, setStateData,
                                         setStateDataMu >>
                    ELSE task'[t].pc = "lock" /\ task'[t].w = 0
                /\ Moves(t, "lock") =>
                    /\ task'[t].pc = "write" /\ task'[t].w = 0
                    /\ setStateDataMu = NoTask /\ setStateDataMu' = t
                /\ Moves(t, "write") =>
                    /\ task'[t].pc = "update" /\ task'[t].w = 1
                    /\ setStateDataMu = t /\ setStateDataMu' = t
                    /\ wire' = packUSBReportOut(full)
                /\ Moves(t, "update") =>
                    /\ task'[t].pc = "idle" /\ task[t].w = 1
                    /\ setStateDataMu = t /\ setStateDataMu' = NoTask
                    /\ wire' = wire
                    /\ task[t].ok => setStateData' = full

C19_SetStateDataCoalescing == [][C19_Step]_vars

\* The cache holds the default with LedRed 0x10; SetStateData of a state
\* with the same LedRed and another RumbleEmulationLeft has issued its one
\* write under the lock.
C19_Witness ==
    \E t \in Tasks :
        /\ task[t].op = "SetStateData" /\ task[t].pc = "update" /\ task[t].ok
        /\ task[t].new = CustomSetStateData
        /\ setStateData = [ defaultSetStateData EXCEPT !.LedRed = 16 ]
        /\ setStateDataMu = t
        /\ task[t].w = 1
        /\ wire = packUSBReportOut(CustomSetStateData)

\* C20 (reads and writes do not serialize). The poller never waits for the
\* write lock: whoever holds it, a poller in its read can return from the
\* read, and a poller in triggerCallbacks can go on; and a mutator never
\* waits for the poller: wherever the poller is, a mutator at Lock with the
\* mutex free can take it, and one past its write can unlock and return.
C20_ReadsAndWritesIndependent ==
    /\ \A p \in DOMAIN pollers :
          /\ pollers[p].pc = "read" => ENABLED (\E r \in ReadOutcomes : ReadReturn(p, r))
          /\ pollers[p].pc = "dispatch" => ENABLED (DispatchField(p) \/ Callback(p))
    /\ \A t \in Tasks :
          /\ (task[t].pc = "lock" /\ setStateDataMu = NoTask) => ENABLED Lock(t)
          /\ task[t].pc = "update" => ENABLED FinishWrite(t)

\* A setter holds the write lock, about to write, while the poller is in
\* its read.
C20_Witness ==
    \E t \in Tasks :
        /\ setStateDataMu = t /\ task[t].op = "Set" /\ task[t].pc = "write"
        /\ Len(pollers) = 1 /\ pollers[1].pc = "read"

\* ------------------------------------------------------------------------
\* Properties of SetPollingRate and of the codec
\* ------------------------------------------------------------------------

\* C26 (polling interval). A call SetPollingRate(hz) with hz >= 1 leaves in
\* d.pollingRate the integer quotient of 1000 by hz, in milliseconds: the q
\* with q * hz <= 1000 < (q + 1) * hz, which is 50 for 20 Hz and 0 for every
\* hz above 1000. Nothing else changes the stored interval, and every Sleep
\* the poller begins lasts the interval stored at that moment.
C26_Step ==
    /\ \A t \in Tasks :
          (task'[t] # task[t] /\ task'[t].op = "SetPollingRate") =>
              LET hz == task'[t].v
                  q == pollingRate'
              IN  /\ q >= 0
                  /\ q * hz <= 1000 /\ 1000 < (q + 1) * hz
                  /\ hz = 20 => q = 50
                  /\ hz > 1000 => q = 0
    /\ pollingRate' # pollingRate =>
          \E t \in Tasks : task'[t] # task[t] /\ task'[t].op = "SetPollingRate"
    /\ \A p \in DOMAIN pollers :
          (pollers[p].pc # "sleep" /\ pollers'[p].pc = "sleep") =>
              pollers'[p].dur = pollingRate

C26_PollingInterval == [][C26_Step]_vars

\* SetPollingRate(7) stored 142 ms and the poller, after its next read, is
\* asleep for 142 ms.
C26_Witness ==
    /\ pollingRate = 142
    /\ \E t \in Tasks : task[t].op = "SetPollingRate" /\ task[t].v = 7
    /\ \E p \in DOMAIN pollers : pollers[p].pc = "sleep" /\ pollers[p].dur = 142

\* C21 (length invariants). Every call of pack returns no error and
\* exactly 48 bytes, the first of them 0x02; a call of unpack returns an
\* error exactly when its buffer is not 64 bytes long, whatever the bytes.
C21_LengthInvariants ==
    call.done =>
        /\ call.fn = "packUSBReportOut" =>
              /\ ~call.ret.err
              /\ Len(call.ret.data) = 48
              /\ call.ret.data[1] = 2
        /\ call.fn = "unpackUSBReportIn" =>
              (call.ret.err <=> Len(call.arg) # 64)

\* unpack was given 65 bytes and returned an error.
C21_Witness ==
    /\ call.done /\ call.fn = "unpackUSBReportIn"
    /\ Len(call.arg) = 65 /\ call.ret.err

\* The D-pad nibble or the PowerState nibble of a report is outside the
\* values of its enum.
EnumOutOfRange(buf) ==
    \/ buf[9] % 16 > DirectionNone
    \/ (buf[54] \div 16) \notin { 0, 1, 2, 10, 11, 15 }

\* C22 (an out-of-range enum is a decode error). When a read returns 64
\* bytes whose D-pad nibble is 9..15 or whose PowerState nibble is none of
\* 0x0, 0x1, 0x2, 0xA, 0xB, 0xF, the poller treats the read as failed: it
\* leaves the snapshot as it is and goes to its sleep without dispatching.
C22_Step ==
    \A p \in DOMAIN pollers :
        (/\ PMoves(p, "read")
         /\ ~pollers'[p].last.err
         /\ pollers'[p].last.n = USB_PACKET_SIZE
         /\ EnumOutOfRange(pollers'[p].last.buf)) =>
            /\ getStateData' = getStateData
            /\ pollers'[p].pc = "sleep"

C22_OutOfRangeEnumIsError == [][C22_Step]_vars

\* The inverse of the documented output layout: the SetStateData that the
\* table of the packed report reads off 48 bytes d (offset k is d[k + 1]).
BitSet(b, k) == Bit(b, k) = 1
unpackOutput(d) ==
    [ EnableRumbleEmulation |-> BitSet(d[2], 0), UseRumbleNotHaptics |-> BitSet(d[2], 1),
      AllowRightTriggerFFB |-> BitSet(d[2], 2), AllowLeftTriggerFFB |-> BitSet(d[2], 3),
      AllowHeadphoneVolume |-> BitSet(d[2], 4), AllowSpeakerVolume |-> BitSet(d[2], 5),
      AllowMicVolume |-> BitSet(d[2], 6), AllowAudioControl |-> BitSet(d[2], 7),
      AllowMuteLight |-> BitSet(d[3], 0), AllowAudioMute |-> BitSet(d[3], 1),
      AllowLedColor |-> BitSet(d[3], 2), ResetLights |-> BitSet(d[3], 3),
      AllowPlayerIndicators |-> BitSet(d[3], 4),
      AllowHapticLowPassFilter |-> BitSet(d[3], 5),
      AllowMotorPowerLevel |-> BitSet(d[3], 6), AllowAudioControl2 |-> BitSet(d[3], 7),
      RumbleEmulationRight |-> d[4], RumbleEmulationLeft |-> d[5],
      VolumeHeadphones |-> d[6], VolumeSpeaker |-> d[7], VolumeMic |-> d[8],
      MicSelect |-> d[9] % 4, EchoCancelEnable |-> BitSet(d[9], 2),
      NoiseCancelEnable |-> BitSet(d[9], 3),
      OutputPathSelect |-> (d[9] \div 16) % 4, InputPathSelect |-> d[9] \div 64,
      MuteLight |-> d[10],
      TouchPowerSave |-> BitSet(d[11], 0), MotionPowerSave |-> BitSet(d[11], 1),
      HapticPowerSave |-> BitSet(d[11], 2), AudioPowerSave |-> BitSet(d[11], 3),
      MicMute |-> BitSet(d[11], 4), SpeakerMute |-> BitSet(d[11], 5),
      HeadphoneMute |-> BitSet(d[11], 6), HapticMute |-> BitSet(d[11], 7),
      RightTriggerFFB |-> SubSeq(d, 12, 22), LeftTriggerFFB |-> SubSeq(d, 23, 33),
      HostTimestamp |-> d[34] + 256 * d[35] + 65536 * d[36] + 16777216 * d[37],
      TriggerMotorPowerReduction |-> d[38] % 16,
      RumbleMotorPowerReduction |-> d[38] \div 16,
      SpeakerCompPreGain |-> d[39] % 8, BeamformingEnable |-> BitSet(d[39], 3),
      AllowLightBrightnessChange |-> BitSet(d[40], 0),
      AllowColorLightFadeAnimation |-> BitSet(d[40], 1),
      EnableImprovedRumbleEmulation |-> BitSet(d[40], 2),
      HapticLowPassFilter |-> BitSet(d[41], 0),
      LightFadeAnimation |-> d[43], LightBrightness |-> d[44],
      PlayerLight1 |-> BitSet(d[45], 0), PlayerLight2 |-> BitSet(d[45], 1),
      PlayerLight3 |-> BitSet(d[45], 2), PlayerLight4 |-> BitSet(d[45], 3),
      PlayerLight5 |-> BitSet(d[45], 4), PlayerLightFade |-> BitSet(d[45], 5),
      LedRed |-> d[46], LedGreen |-> d[47], LedBlue |-> d[48] ]

Packed == call.done /\ call.fn = "packUSBReportOut"

\* C23 (output codec round-trip). For every SetStateData s, with every
\* field at any value of its Go type, every logical field of s is recovered
\* from pack(s) by the inverse of the documented layout.
C23_OutputRoundTrip == Packed => unpackOutput(call.ret.data) = call.arg

\* C24 (default SetState packs to the known prefix), as the specification
\* states it: pack(defaultSetStateData) begins 0x02, 0xFF, 0x55, 0x00, 0x00.
C24_DefaultPrefix ==
    (Packed /\ call.arg = defaultSetStateData) =>
        SubSeq(call.ret.data, 1, 5) = << 2, 255, 85, 0, 0 >>

\* C24 as amended: pack(defaultSetStateData) begins 0x02, 0xFF, 0xF7, 0x00,
\* 0x00. The third byte is SetFlags1 with every gate but ResetLights
\* (bit 3) set.
C24_DefaultPrefixAmended ==
    (Packed /\ call.arg = defaultSetStateData) =>
        SubSeq(call.ret.data, 1, 5) = << 2, 255, 247, 0, 0 >>

C24_Witness ==
    /\ Packed /\ call.arg = defaultSetStateData
    /\ call.ret.data[3] = 247

\* The default SetState as the specification lists it: the gates of the two
\* flag bytes true but for ResetLights, HapticLowPassFilter true, MicSelect
\* Auto, LightFadeAnimation FadeOut, LightBrightness Bright, the LEDs 0xFF
\* and everything else zero or false.
DefaultAsStated ==
    [ ZeroSetStateData EXCEPT
        !.EnableRumbleEmulation = TRUE, !.UseRumbleNotHaptics = TRUE,
        !.AllowRightTriggerFFB = TRUE, !.AllowLeftTriggerFFB = TRUE,
        !.AllowHeadphoneVolume = TRUE, !.AllowSpeakerVolume = TRUE,
        !.AllowMicVolume = TRUE, !.AllowAudioControl = TRUE,
        !.AllowMuteLight = TRUE, !.AllowAudioMute = TRUE,
        !.AllowLedColor = TRUE, !.AllowPlayerIndicators = TRUE,
        !.AllowHapticLowPassFilter = TRUE, !.AllowMotorPowerLevel = TRUE,
        !.AllowAudioControl2 = TRUE,
        !.HapticLowPassFilter = TRUE,
        !.MicSelect = MicSelectAuto,
        !.LightFadeAnimation = LightFadeAnimationFadeOut,
        !.LightBrightness = LightBrightnessBright,
        !.LedRed = 255, !.LedGreen = 255, !.LedBlue = 255 ]

\* The same with EffectTypeOff in byte 0 of both trigger-FFB arrays.
DefaultAsAmended ==
    [ DefaultAsStated EXCEPT
        !.RightTriggerFFB = [ ZeroFFB EXCEPT ![1] = EffectTypeOff ],
        !.LeftTriggerFFB = [ ZeroFFB EXCEPT ![1] = EffectTypeOff ] ]

StartsWithDefault(t) ==
    task[t].op = "Start" /\ task[t].v = 0 /\ task[t].pc \in { "write", "update" }

\* C25 (default SetState contents), as the specification states it: the state
\* that Start(nil) writes has the listed gates, HapticLowPassFilter, enums
\* and LEDs, and every other field, every byte of both trigger-FFB arrays
\* included, zero or false.
C25_DefaultContents ==
    \A t \in Tasks : StartsWithDefault(t) => task[t].new = DefaultAsStated

\* C25 as amended: the same, except that byte 0 of each trigger-FFB array is
\* EffectTypeOff (0x05); its other ten bytes are zero.
C25_DefaultContentsAmended ==
    \A t \in Tasks : StartsWithDefault(t) => task[t].new = DefaultAsAmended

\* Start(nil) has written its state, whose right trigger array begins 0x05.
C25_Witness ==
    \E t \in Tasks :
        /\ StartsWithDefault(t) /\ task[t].pc = "update" /\ task[t].ok
        /\ task[t].new.RightTriggerFFB[1] = 5
        /\ wire = packUSBReportOut(task[t].new)

\* The booleans the packing table lists for each flag byte, in its order.
ListedSetFlags0(s) ==
    << s.EnableRumbleEmulation, s.UseRumbleNotHaptics, s.AllowRightTriggerFFB,
       s.AllowLeftTriggerFFB, s.AllowHeadphoneVolume, s.AllowSpeakerVolume,
       s.AllowMicVolume, s.AllowAudioControl >>
ListedSetFlags1(s) ==
    << s.AllowMuteLight, s.AllowAudioMute, s.AllowLedColor, s.ResetLights,
       s.AllowPlayerIndicators, s.AllowHapticLowPassFilter,
       s.AllowMotorPowerLevel, s.AllowAudioControl2 >>
ListedMuteControl(s) ==
    << s.TouchPowerSave, s.MotionPowerSave, s.HapticPowerSave,
       s.AudioPowerSave, s.MicMute, s.SpeakerMute, s.HeadphoneMute,
       s.HapticMute >>
ListedPlayerIndicators(s) ==
    << s.PlayerLight1, s.PlayerLight2, s.PlayerLight3, s.PlayerLight4,
       s.PlayerLight5, s.PlayerLightFade >>
BitsAre(byte, listed) ==
    \A k \in 0..7 : BitSet(byte, k) <=> (k < Len(listed) /\ listed[k + 1])

\* C27 (flag-byte bit order). In every packed report, bit k of SetFlags0
\* (offset 1), of SetFlags1 (offset 2), of MuteControl (offset 10) and of
\* PlayerIndicators (offset 44) is set exactly when the k-th boolean listed
\* for that byte is true, the first listed being bit 0; bits 6 and 7 of
\* PlayerIndicators are zero.
C27_FlagBitOrder ==
    Packed =>
        /\ BitsAre(call.ret.data[2], ListedSetFlags0(call.arg))
        /\ BitsAre(call.ret.data[3], ListedSetFlags1(call.arg))
        /\ BitsAre(call.ret.data[11], ListedMuteControl(call.arg))
        /\ BitsAre(call.ret.data[45], ListedPlayerIndicators(call.arg))

\* ResetLights alone among the booleans of SetFlags1: the byte is 0x08.
C27_Witness ==
    /\ Packed
    /\ call.arg = WithFlags1(defaultSetStateData, BoolsOf(8))
    /\ call.arg.ResetLights /\ ~call.arg.AllowMuteLight
    /\ call.ret.data[3] = 8

\* C28 (AudioControl2 layout). For every SpeakerCompPreGain in 0..7 and
\* either BeamformingEnable, byte 38 of the packed report is the gain plus 8
\* when beamforming is enabled: the gain in bits 0..2, beamforming in bit 3,
\* bits 4..7 zero.
C28_AudioControl2Layout ==
    (Packed /\ call.arg.SpeakerCompPreGain \in 0..7) =>
        call.ret.data[39] =
            call.arg.SpeakerCompPreGain
            + 8 * (IF call.arg.BeamformingEnable THEN 1 ELSE 0)

\* Gain 5 with beamforming packs to 13.
C28_Witness ==
    /\ Packed
    /\ call.arg.SpeakerCompPreGain = 5 /\ call.arg.BeamformingEnable
    /\ call.ret.data[39] = 13

\* C29 (MotorPowerLevel layout). For every pair of uint8 values, byte 37
\* of the packed report has TriggerMotorPowerReduction in its low nibble and
\* RumbleMotorPowerReduction in its high nibble, neither field reaching into
\* the nibble of the other.
C29_MotorPowerLevelLayout ==
    Packed =>
        /\ call.ret.data[38] % 16 = call.arg.TriggerMotorPowerReduction % 16
        /\ call.ret.data[38] \div 16 = call.arg.RumbleMotorPowerReduction % 16

\* C30 (AudioControl layout). In every packed report byte 8 has MicSelect
\* in bits 0..1, EchoCancelEnable in bit 2, NoiseCancelEnable in bit 3,
\* OutputPathSelect in bits 4..5 and InputPathSelect in bits 6..7; a field
\* value above 3 gives its two low bits and leaves every other bit alone.
C30_AudioControlLayout ==
    Packed =>
        LET b == call.ret.data[9]
            s == call.arg
        IN  /\ b % 4 = s.MicSelect % 4
            /\ BitSet(b, 2) <=> s.EchoCancelEnable
            /\ BitSet(b, 3) <=> s.NoiseCancelEnable
            /\ (b \div 16) % 4 = s.OutputPathSelect % 4
            /\ b \div 64 = s.InputPathSelect % 4

\* MicSelect 5, noise cancelling, OutputPathSelect 4 and InputPathSelect 255
\* pack to 0b11001001.
C30_Witness ==
    /\ Packed
    /\ call.arg.MicSelect = 5 /\ ~call.arg.EchoCancelEnable
    /\ call.arg.NoiseCancelEnable
    /\ call.arg.OutputPathSelect = 4 /\ call.arg.InputPathSelect = 255
    /\ call.ret.data[9] = 201

\* ------------------------------------------------------------------------
\* Properties of the input codec, of the setters' effects and of Close
\* ------------------------------------------------------------------------
Unpacked == call.done /\ call.fn = "unpackUSBReportIn" /\ ~call.ret.err

\* The buffer with bit i of the byte at offset o flipped.
FlipBit(buf, o, i) ==
    [ buf EXCEPT ![o + 1] = IF Bit(@, i) = 1 THEN @ - Pow2(i) ELSE @ + Pow2(i) ]

\* The fields in which two decoded reports differ.
DiffFields(g, h) == { f \in DOMAIN g : g[f] # h[f] }

\* The bit-packed bytes of the input report, by offset, and for each bit
\* the field the layout gives it ("" for a bit it gives to none).
PackedInputBytes == { 8, 9, 10, 42, 43, 48, 53, 54, 55 }
FieldOfBit(o, i) ==
    CASE o = 8 -> IF i < 4 THEN "DPad"
                  ELSE << "ButtonSquare", "ButtonCross", "ButtonCircle",
                          "ButtonTriangle" >>[i - 3]
      [] o = 9 -> << "ButtonL1", "ButtonR1", "ButtonL2", "ButtonR2",
                     "ButtonCreate", "ButtonOptions", "ButtonL3",
                     "ButtonR3" >>[i + 1]
      [] o = 10 -> << "ButtonHome", "ButtonPad", "ButtonMute", "",
                      "ButtonLeftFunction", "ButtonRightFunction",
                      "ButtonLeftPaddle", "ButtonRightPaddle" >>[i + 1]
      [] o = 42 -> IF i < 4 THEN "TriggerRightStopLocation" ELSE "TriggerRightStatus"
      [] o = 43 -> IF i < 4 THEN "TriggerLeftStopLocation" ELSE "TriggerLeftStatus"
      [] o = 48 -> IF i < 4 THEN "TriggerRightEffect" ELSE "TriggerLeftEffect"
      [] o = 53 -> IF i < 4 THEN "PowerPercent" ELSE "PowerState"
      [] o = 54 -> << "PluggedHeadphones", "PluggedMic", "MicMuted",
                      "PluggedUsbData", "PluggedUsbPower", "", "", "" >>[i + 1]
      [] o = 55 -> << "PluggedExternalMic", "HapticLowPassFilter", "", "", "",
                      "", "", "" >>[i + 1]

FlipDiff(o, i) ==
    DiffFields(call.ret.USBGetStateData,
               unpackUSBReportIn(FlipBit(call.arg, o, i)).USBGetStateData)

\* C31 (input field isolation), as the specification states it: in every
\* 64-byte report, flipping one bit of a bit-packed byte changes exactly one
\* field of the decoded GetState: for the D-pad/action-buttons byte one of
\* DPad, ButtonSquare, ButtonCross, ButtonCircle, ButtonTriangle.
C31_FieldIsolation ==
    Unpacked =>
        \A o \in PackedInputBytes, i \in 0..7 :
            /\ Cardinality(FlipDiff(o, i)) = 1
            /\ o = 8 => FlipDiff(o, i) \subseteq
                  { "DPad", "ButtonSquare", "ButtonCross", "ButtonCircle",
                    "ButtonTriangle" }

\* C31 as amended: flipping a bit that the layout gives to a field changes
\* that field and no other; flipping a bit it gives to none (bit 3 of the
\* third button byte, bits 5..7 of plug-info A, bits 2..7 of plug-info B)
\* changes nothing. Every bit of the D-pad/action-buttons byte belongs to
\* a field.
C31_FieldIsolationAmended ==
    Unpacked =>
        \A o \in PackedInputBytes, i \in 0..7 :
            /\ FlipDiff(o, i) =
                  IF FieldOfBit(o, i) = "" THEN { } ELSE { FieldOfBit(o, i) }
            /\ o = 8 => FieldOfBit(o, i) # ""

\* The report with every bit set has been decoded.
C31_Witness ==
    /\ Unpacked
    /\ call.arg = BufferOf(USB_PACKET_SIZE, 255)
    /\ call.ret.USBGetStateData.ButtonCross
    /\ FlipDiff(8, 5) = { "ButtonCross" }

\* The buttons of GetState other than ButtonCross.
OtherButtons ==
    { "ButtonSquare", "ButtonCircle", "ButtonTriangle", "ButtonL1",
      "ButtonR1", "ButtonL2", "ButtonR2", "ButtonCreate", "ButtonOptions",
      "ButtonL3", "ButtonR3", "ButtonHome", "ButtonPad", "ButtonMute",
      "ButtonLeftFunction", "ButtonRightFunction", "ButtonLeftPaddle",
      "ButtonRightPaddle" }

\* Poller p decoded the report with 0x28 at offset 8 directly after the
\* all-zero report.
CrossAfterZero(p) ==
    /\ pollers[p].pc \in { "dispatch", "sleep" }
    /\ ~ReadFailed(pollers[p])
    /\ pollers[p].last.buf = ReportCross
    /\ pollers[p].prev = unpackUSBReportIn(ReportZero).USBGetStateData

C33_NoLostUpdate ==
    (\A t \in Tasks : task[t].pc = "idle" /\ task[t].res = "ok") =>
        /\ setStateData[call.arg[1]] = call.arg[2]
        /\ setStateData[call.arg[3]] = call.arg[4]
        /\ devState = << setStateData >>
        /\ wire = packUSBReportOut(setStateData)

\* Both setters returned without error and the cache holds both values.
C33_Witness ==
    /\ \A t \in Tasks : task[t].pc = "idle" /\ task[t].res = "ok"
    /\ call.fn = "setters" /\ used.starts = 0
    /\ setStateData.LedRed = 255 /\ setStateData.RumbleEmulationRight = 7
    /\ wire # << >>

\* C34 (setter frame). No step of a setter Set<F>(v) changes the GetState
\* snapshot, the observer lists or the polling interval. The cache changes
\* only in the step that ends a successful write, and there only in field
\* F, which becomes v; a coalesced setter returns at its test with no write,
\* and a setter whose write failed leaves the cache as it was.
C34_Step ==
    \A t \in Tasks :
        (task[t].op = "Set" /\ task'[t].pc # task[t].pc) =>
            /\ UNCHANGED << getStateData, callbacks, pollingRate, pollers >>
            /\ IF task[t].pc = "update" /\ task[t].ok
               THEN /\ setStateData'[task[t].F] = task[t].v
                    /\ \A G \in DOMAIN setStateData \ { task[t].F } :
                          setStateData'[G] = setStateData[G]
               ELSE setStateData' = setStateData
            /\ (task[t].pc = "test" /\ task'[t].pc = "idle") =>
                  UNCHANGED << wire, devState, setStateDataMu >>

C34_SetterFrame == [][C34_Step]_vars

\* A setter's write succeeded while the snapshot holds a pressed Cross and
\* a callback is registered.
C34_Witness ==
    \E t \in Tasks :
        /\ task[t].op = "Set" /\ task[t].pc = "update" /\ task[t].ok
        /\ task[t].F = "LedRed" /\ task[t].v = 16
        /\ getStateData.ButtonCross
        /\ callbacks["ButtonCross"] # << >>
        /\ setStateData.LedRed # 16

\* C35 (a failed write leaves the mutator retryable). When a setter's
\* device write fails, the setter returns the error with the mutex released
\* and the cache as it was, still without the value; the same setter called
\* again with the same value, from any task, passes its test, finds the
\* mutex free, takes it and issues a new device write of the cache with F
\* set.
C35_Step ==
    \A t \in Tasks :
        task[t].op = "Set" =>
            LET F == task[t].F
                v == task[t].v
                again == used.calls > 1
            IN  /\ (Moves(t, "update") /\ ~task[t].ok) =>
                      /\ task'[t] = Returned("err")
                      /\ setStateDataMu' = NoTask
                      /\ setStateData' = setStateData
                      /\ setStateData'[F] # v
                /\ (again /\ Moves(t, "test")) =>
                      /\ task'[t].pc = "lock"
                      /\ setStateDataMu' = NoTask
                /\ (again /\ Moves(t, "lock")) =>
                      /\ task'[t].pc = "write"
                      /\ setStateDataMu' = t
                /\ (again /\ Moves(t, "write")) =>
                      /\ task'[t].w = 1
                      /\ wire' = packUSBReportOut(WithField(setStateData, F, v))

C35_FailedWriteRetryable == [][C35_Step]_vars

\* The setter called again after its write failed has issued its write,
\* and this one succeeded.
C35_Witness ==
    \E t \in Tasks :
        /\ call.fn = "retry" /\ used.calls > 1
        /\ task[t].op = "Set" /\ task[t].pc = "update" /\ task[t].ok
        /\ task[t].w = 1
        /\ setStateData[task[t].F] # task[t].v
        /\ wire = packUSBReportOut(WithField(setStateData, task[t].F, task[t].v))

\* No device write has succeeded yet: before Start, or after a Start whose
\* write failed.
NoWriteYet == devState = << >>

\* C37 (the cache before the first successful write is all-zero, not the
\* default). Until a device write has succeeded, GetOutStateData returns
\* the zero SetStateData; a setter called with the zero value of its field
\* returns at its test and writes nothing; a setter called with another
\* value writes pack(zero SetStateData with F set), whose two allow/enable
\* flag bytes are 0.
C37_Step ==
    /\ NoWriteYet => GetOutStateData = ZeroSetStateData
    /\ \A t \in Tasks :
          (task[t].op = "Set" /\ NoWriteYet) =>
              LET F == task[t].F
                  v == task[t].v
              IN  /\ Moves(t, "test") =>
                        IF v = ZeroSetStateData[F]
                        THEN /\ task'[t] = Returned("ok")
                             /\ UNCHANGED << wire, devState, setStateData >>
                        ELSE task'[t].pc = "lock"
                  /\ Moves(t, "write") =>
                        /\ v # ZeroSetStateData[F]
                        /\ wire' = packUSBReportOut(
                                      [ ZeroSetStateData EXCEPT ![F] = v ])
                        /\ At(wire', 1) = 0 /\ At(wire', 2) = 0

C37_ZeroCacheBeforeFirstWrite == [][C37_Step]_vars

\* After a Start whose write failed, a setter has written the zero state
\* with its field set (the write failed too, so none has succeeded yet).
C37_Witness ==
    \E t \in Tasks :
        /\ NoWriteYet /\ used.starts > 0
        /\ \A u \in Tasks : task[u].op # "Start"
        /\ task[t].op = "Set" /\ task[t].pc = "update"
        /\ task[t].v # 0
        /\ wire = packUSBReportOut(
                      [ ZeroSetStateData EXCEPT ![task[t].F] = task[t].v ])
        /\ wire # packUSBReportOut(
                      [ defaultSetStateData EXCEPT ![task[t].F] = task[t].v ])

\* The poller is in its first iteration since Start: the first of the two
\* reads that InitEnum leaves room for.
FirstIteration == used.ops = MaxOps - 1

\* C36 (the first snapshot is diffed against the all-zero GetState). For
\* the first report decoded after Start, the previous snapshot is the zero
\* GetStateData: every callback invoked is on a field whose decoded value
\* differs from the zero value of its type and is passed the decoded
\* value, and when the dispatch is over each registered callback has been
\* invoked once if its field differs from zero and not at all otherwise
\* (OnDPadChange fires for nibble 8 = None and not for 0 = North).
C36_FirstSnapshotAgainstZero ==
    \A p \in DOMAIN pollers :
        LET q == pollers[p] IN
        (FirstIteration /\ q.pc \in { "dispatch", "sleep" }) =>
            /\ q.prev = ZeroGetStateData
            /\ \A k \in 1..Len(q.fired) :
                  /\ q.fired[k][3] # FieldOf(ZeroGetStateData, q.fired[k][1])
                  /\ q.fired[k][3] = FieldOf(getStateData, q.fired[k][1])
            /\ q.pc = "sleep" =>
                  \A f \in { "DPad", "PowerState" } :
                      \A cb \in Elems(callbacks[f]) :
                          Count(q.fired, f, cb) =
                              IF FieldOf(getStateData, f)
                                    # FieldOf(ZeroGetStateData, f)
                              THEN 1 ELSE 0

\* The first report had D-pad nibble 8: the callback on DPad ran once, with
\* None, and the one on PowerState did not run.
C36_Witness ==
    \E p \in DOMAIN pollers :
        /\ FirstIteration /\ pollers[p].pc = "sleep"
        /\ pollers[p].last.buf = [ ReportZero EXCEPT ![9] = 8 ]
        /\ pollers[p].fired = << << "DPad", 1, DirectionNone >> >>

\* No Close has delivered its stop signal yet.
NoStopYet == deviceOpen /\ \A t \in Tasks : task[t].pc # "close"

\* C38 (a failed Start still leaves a running poller). When Start's device
\* write fails, Start returns the error and leaves the cache and the
\* pollers as they are; every Start has launched a poller, and until a
\* Close delivers the stop signal each of them is running, whatever became
\* of the write; a poller stops only in the step that receives from a Close.
C38_Step ==
    /\ \A t \in Tasks :
          (task[t].op = "Start" /\ Moves(t, "update") /\ ~task[t].ok) =>
              /\ task'[t] = Returned("err")
              /\ setStateData' = setStateData
              /\ pollers' = pollers
    /\ NoStopYet => (Live = DOMAIN pollers /\ Len(pollers) = used.starts)
    /\ \A p \in DOMAIN pollers :
          (pollers[p].pc # "done" /\ pollers'[p].pc = "done") =>
              \E t \in Tasks : task[t].pc = "send" /\ task'[t].pc = "close"

C38_FailedStartLeavesPoller == [][C38_Step]_vars

\* The only Start failed, and afterwards its poller read a report and
\* invoked a callback.
C38_Witness ==
    \E p \in DOMAIN pollers :
        /\ used.starts = 1 /\ devState = << >> /\ wire # << >>
        /\ \E t \in Tasks : task[t].pc = "idle" /\ task[t].res = "err"
        /\ \A t \in Tasks : task[t].op # "Start"
        /\ setStateData = ZeroSetStateData
        /\ pollers[p].pc = "sleep" /\ pollers[p].fired # << >>

\* C39 (Close needs a receiving poller). A Close gets past its send only
\* in a step in which a poller at the top of its loop receives and stops.
\* So while no poller has been started, no Close has got past its send and
\* the handle is open; and with the one poller, a Close called from inside
\* a callback, on the poller's own goroutine, never gets past its send.
C39_Step ==
    /\ \A t \in Tasks :
          (task[t].pc = "send" /\ task'[t].pc # "send") =>
              /\ task'[t].pc = "close"
              /\ \E p \in DOMAIN pollers :
                    pollers[p].pc = "top" /\ pollers'[p].pc = "done"
    /\ \A q \in DOMAIN pollers :
          (pollers[q].pc = "send" /\ pollers'[q].pc # "send") =>
              /\ pollers'[q].pc = "close"
              /\ \E p \in DOMAIN pollers \ { q } :
                    pollers[p].pc = "top" /\ pollers'[p].pc = "done"
    /\ pollers = << >> =>
          /\ deviceOpen
          /\ \A t \in Tasks :
                /\ task[t].pc # "close"
                /\ task[t].pc = "idle" => task[t].res = None
    /\ SinglePoller =>
          \A q \in DOMAIN pollers : pollers[q].pc # "close"
    /\ deviceOpen' # deviceOpen =>
          \/ \E t \in Tasks : task[t].pc = "close"
          \/ \E q \in DOMAIN pollers : pollers[q].pc = "close"

C40_Step ==
    \A t \in Tasks : Moves(t, "write") => deviceOpen

C40_NoWriteAfterClose == [][C40_Step]_vars

====
